---------------------------- MODULE Spec2Model ----------------------------
(***************************************************************************)
(* whisper-typer-rs: the TTS queue engine (code_speaker/api.rs), the       *)
(* Kokoro synthesizer's speak/cancel protocol (code_speaker/tts.rs), the   *)
(* reminder manager (code_speaker/reminder.rs), the dictation             *)
(* orchestrator with its voice gate (service.rs, hotkey.rs, recorder.rs),  *)
(* the hook dispatcher (bin/tts_hook.rs) and the process from main to its  *)
(* exit (main.rs).                                                         *)
(*                                                                         *)
(* HTTP handlers are single actions.  The queue consumer, the reminder     *)
(* task and the orchestrator are processes whose position is kept in pc /  *)
(* o_pc; they take one step per await point or per shared-memory access    *)
(* that another thread can interleave with.                                *)
(***************************************************************************)
EXTENDS Integers, Sequences, FiniteSets, TLC

(***************************************************************************)
(* Program constants                                                       *)
(***************************************************************************)
MAX_DEFERRED == 20

QUEUE_CAPACITY == 20

HOTKEY_CHANNEL_CAPACITY == 16

\* tts.rs: MAX_TOKENS
MAX_TOKENS == 510

\* rows of VoiceData.styles: the voices file has arrays of shape
\* (510, 1, 256)
STYLE_ROWS == 510

\* read_focus: chrono::Duration::hours(6)
FOCUS_HOURS == 6

(***************************************************************************)
(* Bounds of the model                                                     *)
(***************************************************************************)
\* /speak requests accepted in one behaviour of Spec
MaxSpeak == 2

\* value at which /cancel and /disable stop raising the u64 generation
MaxGen == 2

\* sentences in a spoken text
MaxSentences == 1

\* reminders one reminder task fires
MaxReminderCount == 1

\* hotkey Pressed edges the monitor emits in one behaviour
MaxPress == 2

\* /speak requests accepted in one behaviour of SpecCap, beyond MAX_DEFERRED
CapExtra == 1

\* texts sent to POST /speak while the dictation side runs
GateJobs == 1

\* events the hook dispatcher is started with in one behaviour of SpecHook,
\* after the first two
MaxHook == 2

\* POST /speak requests the hook dispatcher sends in one behaviour of SpecHook
HookJobs == 2

\* keyboard devices find_keyboards can return
MaxKeyboards == 1

\* ticks of the clock in one behaviour of SpecRec
MaxClock == 4

\* silence.duration, in ticks
SilenceTicks == 1

\* largest silence.min_speech_duration a configuration has, in ticks
MaxMinSpeech == 2

\* largest silence.max_recording_duration a configuration has, in ticks
MaxMaxRecording == 3

\* recording.max_duration * audio.sample_rate, the cap of the buffer
MaxSamples == 5

\* samples the audio host hands to one capture callback
ChunkSize == 2

\* silence.threshold, squared, in units of the squared amplitude
ThresholdSq == 2

\* events the hook dispatcher is started with in one behaviour of SpecFocus
MaxFocusEvents == 2

\* characters in a text given to split_sentences
MaxText == 5

\* known characters in a phoneme string: two more than fit MAX_TOKENS
MaxKnown == 512

\* unknown characters in a phoneme string
MaxUnknown == 1

\* the id the vocabulary gives a known character
TokenId == 7

\* /speak requests accepted in one behaviour of SpecSpeech
SpeechJobs == 2

\* sentences in a text sent to POST /speak in SpecSpeech
SpeechSentences == 2

\* hotkey Pressed edges the monitor emits in one behaviour of SpecStuck
MaxTaps == 10

\* edges the hotkey monitor sends in a run of SpecKeys
MaxSent == 4

\* samples the capture callbacks are called with during one recording of
\* SpecBuffer
MaxDelivered == 8

\* sentences in a text of the three-text scenario
ScenSentences == 2

\* /speak requests accepted in one behaviour of SpecApi
ApiJobs == 2

\* /speak requests accepted in one behaviour of SpecFull, beyond QUEUE_CAPACITY
FullExtra == 1

VARIABLES
    enabled,        \* TtsApiState.enabled
    generation,     \* TtsApiState.generation
    queue,          \* the mpsc channel behind TtsApiState.queue_tx / rx
    deferred,       \* TtsApiState.deferred
    tts,            \* KokoroTtsEngine: cancel_flag, speaking, speak_lock, active_sink
    reminder,       \* ReminderManager: active, count, text, task
    pc,             \* position of the queue consumer and of the reminder task
    frame,          \* locals of the speak() each of them runs
    poller,         \* the spawn_blocking poll loop of play_audio, per caller
    c_job,          \* the job the consumer holds (job / backup)
    nspeak,         \* number of /speak requests accepted so far
    state,          \* DictationService.state
    voice_is_idle,  \* VoiceGate.is_idle
    hotkey_active,  \* HotkeyState.hotkey_active
    hotkey_rx,      \* the mpsc channel from the hotkey monitor
    o_pc,           \* position of DictationService::run
    recorder,       \* RecorderInner: is_recording, buffer, should_auto_stop
    cancel_http,    \* fire-and-forget POST /cancel tasks not yet delivered
    dict_log,       \* tallies of the key presses, the recordings started, the
                    \* entries into PROCESSING, the history records, the skip
                    \* lines and save errors logged
    scenario,       \* step of the literal end-to-end scenario (SpecScenario)
    voice,          \* KokoroTtsEngine.voice
    reply,          \* the SimpleResponse sent last and its endpoint (SpecApi)
    focus,          \* ~/.tts-hook-history/.focus-session (tts_hook.rs)
    dedup,          \* the .last-stop-<prefix> files, by prefix
    hook_in,        \* the events the hook dispatcher was started with
    hook_log,       \* the HistoryRecords it appended to the .jsonl file
    proc,           \* the whisper-typer-rs process: its hotkey monitor task
                    \* and its exit code
    clock,          \* Instant::now(), in ticks (SpecRec)
    inner,          \* RecorderInner: the samples of buffer, silence_start,
                    \* recording_start, and the SilenceConfig and max_samples
                    \* of RecorderShared (SpecRec)
    arg,            \* the argument a function of tts.rs is called with
    ret,            \* what it returned
    sink_cut,       \* cancel() or interrupt() has stopped the sink of the
                    \* job the consumer is speaking while that sink was
                    \* playing (SpecSpeech)
    new_sink,       \* the local sink of each caller's play_audio, from
                    \* sink.append to its move into active_sink (SpecSpeech)
    combos,         \* HotkeyMonitor.combos, the configured key sets
    pressed_keys,   \* HotkeyState.pressed_keys (SpecKeys)
    key_log,        \* the key event handled last and the edges the monitor
                    \* has sent so far (SpecKeys)
    state_file,     \* ~/.cache/whisper-typer/state.json: the reload flags
                    \* that are true in it (SpecCache)
    update,         \* the update_state call of the MCP server in progress
    reload,         \* the orchestrator's position in a PROCESSING cycle and
                    \* the copies of the state file it holds
    unseen,         \* the flags the tool has written since the orchestrator
                    \* last reloaded their file
    dispatchers     \* the hook dispatcher processes that run at the same
                    \* time: position, event and locals of each (SpecRace)

ttsVars == <<enabled, generation, queue, deferred, tts, reminder, pc, frame,
             poller, c_job, nspeak>>

dictVars == <<state, voice_is_idle, hotkey_active, hotkey_rx, o_pc, recorder,
              cancel_http, dict_log>>

hookVars == <<focus, dedup, hook_in, hook_log>>

recVars == <<clock, inner>>

fnVars == <<arg, ret>>

\* what the TTS side leaves alone
sinkVars == <<sink_cut, new_sink>>

keyVars == <<combos, pressed_keys, key_log>>

cacheVars == <<state_file, update, reload, unseen>>

restVars == <<recVars, fnVars, sinkVars, keyVars, cacheVars, dispatchers>>

vars == <<enabled, generation, queue, deferred, tts, reminder, pc, frame,
          poller, c_job, nspeak, state, voice_is_idle, hotkey_active,
          hotkey_rx, o_pc, recorder, cancel_http, dict_log, scenario, voice,
          reply, focus, dedup, hook_in, hook_log, proc, clock, inner,
          arg, ret, sink_cut, new_sink, combos, pressed_keys, key_log,
          state_file, update, reload, unseen, dispatchers>>

(***************************************************************************)
(* Data                                                                    *)
(***************************************************************************)
Callers == {"consumer", "reminder"}

\* no argument, no return value
NoCall == [called |-> FALSE]

\* the function has returned v
FnReturned(v) == [called |-> TRUE, value |-> v]

\* Option<Instant>
None == <<>>

Some(t) == <<t>>

\* amplitudes of a sample: none and one above the threshold
Amplitudes == {0, 2}

\* the data of one capture callback
Chunks == [1..ChunkSize -> Amplitudes]

\* SilenceConfig (config.rs:124-130): the durations in ticks
SilenceConfigs ==
    [duration : {SilenceTicks}, min_speech_duration : 1..MaxMinSpeech,
     max_recording_duration : 1..MaxMaxRecording]

\* session ids a request can carry; "" is the serde default
SessionIds == {"", "s1", "s2"}

NoJob == [text |-> 0]

\* the voices of the voices file; the first is TTSConfig's default
Voices == {"af_heart", "am_adam"}

DefaultVoice == "af_heart"

\* SimpleResponse; an absent error or requeued field is "" or -1
SimpleResponse(status, error, requeued) ==
    [status |-> status, error |-> error, requeued |-> requeued]

\* SimpleResponse::ok
Ok(status) == SimpleResponse(status, "", -1)

\* SimpleResponse::err
Err(message) == SimpleResponse("error", message, -1)

\* no request has been answered yet
NoReply == [endpoint |-> "", body |-> Ok("")]

Reply(endpoint, body) == [endpoint |-> endpoint, body |-> body]

\* SpeakJob; text is the request's text, held as its identity and the number
\* of sentences split_sentences finds in it
SpeakJob(text, nsent, summarize, start_reminder, gen, sid, retries) ==
    [text |-> text, nsent |-> nsent, summarize |-> summarize,
     start_reminder |-> start_reminder, generation |-> gen,
     session_id |-> sid, retries |-> retries]

(***************************************************************************)
(* KokoroTtsEngine                                                         *)
(***************************************************************************)
\* KokoroTtsEngine::cancel
cancel(t) ==
    [t EXCEPT !.cancel_flag = TRUE, !.active_sink = "none", !.speaking = FALSE]

\* KokoroTtsEngine::interrupt, a synonym of cancel used between queue items
interrupt(t) == cancel(t)

\* KokoroTtsEngine::clear_cancel
clear_cancel(t) == [t EXCEPT !.cancel_flag = FALSE]

(***************************************************************************)
(* ReminderManager                                                         *)
(***************************************************************************)
\* pcs at which a task is parked on an .await; handle.abort() drops it there
AwaitPcs == {"sleep", "lock", "wait"}

\* ReminderManager::cancel: active = false, abort the task, count swapped to 0
ReminderCancel(r) ==
    [r EXCEPT !.active = FALSE, !.count = 0,
              !.task = IF r.task = "running" THEN "aborted" ELSE r.task]

\* what abort() does to the task: parked on an await it is dropped at once
\* (a MutexGuard it owns is released with it); in the middle of a poll it runs
\* on to its next await
AbortedPc(p) == IF p \in AwaitPcs THEN "none" ELSE p

\* the reminder record once its aborted task is gone
TaskGone(r, p) == IF r.task = "aborted" /\ p = "none"
                  THEN [r EXCEPT !.task = "none"] ELSE r

\* what a call of reminder.cancel() changes: the manager, the task's
\* position, the speak mutex and the task's poll loop
CancelReminderTask ==
    LET r  == ReminderCancel(reminder)
        p  == IF r.task = "aborted" THEN AbortedPc(pc["reminder"])
              ELSE pc["reminder"]
    IN  [rem |-> TaskGone(r, p), rpc |-> p,
         unlock |-> r.task = "aborted" /\ p = "none"
                    /\ tts.speak_lock = "reminder",
         \* a poll loop that had already returned to the dropped task
         rpoll |-> IF r.task = "aborted" /\ p = "none"
                      /\ poller["reminder"] \in {"false", "true"}
                   THEN "none" ELSE poller["reminder"]]

Unlocked(t, unlock) == IF unlock THEN [t EXCEPT !.speak_lock = "none"] ELSE t


(***************************************************************************)
(* HTTP handlers (api.rs)                                                  *)
(***************************************************************************)
\* the consumer task has ended in a panic: its future, and with it the
\* Receiver of the queue, was dropped
Closed == pc["consumer"] = "panicked"

\* queue_tx.try_send succeeds: the channel is open and has a free slot
CanSend(q) == ~Closed /\ Len(q) < QUEUE_CAPACITY

\* variant of handle_speak's tests that does not look at the enabled flag
SpeakStatusIgnoresEnabled(nsent) ==
    IF nsent = 0 THEN "error"
    ELSE IF CanSend(queue) THEN "queued"
    ELSE "queue full"

\* the status handle_speak answers with (api.rs:288-329)
SpeakStatus(nsent) ==
    IF ~enabled THEN "disabled"
    ELSE IF nsent = 0 THEN "error"
    ELSE IF CanSend(queue) THEN "queued"
    ELSE "queue full"

\* the response of handle_speak (api.rs:288-329)
SpeakResponse(nsent) ==
    IF ~enabled THEN Ok("disabled")
    ELSE IF nsent = 0 THEN Err("empty text")
    ELSE IF CanSend(queue) THEN Ok("queued")
    ELSE Err("queue full")

\* handle_speak: the request's text has nsent sentences (0: blank text)
HandleSpeak(nsent, summarize, start_reminder, sid) ==
    /\ IF SpeakStatus(nsent) = "queued"
       THEN /\ queue' = Append(queue,
                   SpeakJob(nspeak + 1, nsent, summarize, start_reminder,
                            generation, sid, 0))
            /\ nspeak' = nspeak + 1
       ELSE UNCHANGED <<queue, nspeak>>
    /\ UNCHANGED <<enabled, generation, deferred, tts, reminder, pc, frame,
                   poller, c_job>>

\* variant of handle_cancel that also empties the queue
HandleCancelDrains ==
    /\ generation < MaxGen
    /\ generation' = generation + 1
    /\ LET c == CancelReminderTask
       IN  /\ reminder' = c.rem
           /\ pc' = [pc EXCEPT !["reminder"] = c.rpc]
           /\ tts' = cancel(Unlocked(tts, c.unlock))
    /\ poller' = [poller EXCEPT !["reminder"] = CancelReminderTask.rpoll]
    /\ queue' = <<>>
    /\ UNCHANGED <<enabled, deferred, frame, c_job, nspeak>>

\* handle_cancel
HandleCancel ==
    /\ generation < MaxGen
    /\ generation' = generation + 1
    /\ LET c == CancelReminderTask
       IN  /\ reminder' = c.rem
           /\ pc' = [pc EXCEPT !["reminder"] = c.rpc]
           /\ tts' = cancel(Unlocked(tts, c.unlock))
    /\ poller' = [poller EXCEPT !["reminder"] = CancelReminderTask.rpoll]
    /\ UNCHANGED <<enabled, queue, deferred, frame, c_job, nspeak>>

\* handle_cancel_reminder
HandleCancelReminder ==
    /\ LET c == CancelReminderTask
       IN  /\ reminder' = c.rem
           /\ pc' = [pc EXCEPT !["reminder"] = c.rpc]
           /\ tts' = Unlocked(tts, c.unlock)
    /\ poller' = [poller EXCEPT !["reminder"] = CancelReminderTask.rpoll]
    /\ UNCHANGED <<enabled, generation, queue, deferred, frame, c_job, nspeak>>

\* handle_set_voice: the request names voice v
HandleSetVoice(v) ==
    /\ voice' = IF v \in Voices THEN v ELSE voice
    /\ UNCHANGED ttsVars

\* the response of handle_set_voice (its voice field is the v of the request)
SetVoiceResponse(v) ==
    IF v \in Voices THEN Ok("ok") ELSE Err("Unknown voice")

\* handle_status: nothing is written
HandleStatus == UNCHANGED <<ttsVars, voice>>

\* StatusResponse (model_loaded is true once start_tts_api runs)
StatusResponse ==
    [enabled |-> enabled, speaking |-> tts.speaking, voice |-> voice,
     reminder_active |-> reminder.active, reminder_count |-> reminder.count,
     queue_depth |-> Len(queue), deferred_count |-> Len(deferred)]

\* the focus test of handle_user_input (api.rs:391)
IsFocus(job, sid) == job.session_id = "" \/ job.session_id = sid

\* variant of the restamp that leaves the job's generation as it was
RestampKeepsGeneration(job, gen) == [job EXCEPT !.retries = @ + 1]

\* the restamp of handle_user_input (api.rs:397-398)
Restamp(job, gen) == [job EXCEPT !.generation = gen, !.retries = @ + 1]

\* the for loop of handle_user_input (api.rs:390-402) over the drained items
RECURSIVE RequeueLoop(_, _, _, _, _)
RequeueLoop(items, q, sid, gen, requeued) ==
    IF items = <<>>
    THEN [queue |-> q, requeued |-> requeued]
    ELSE IF IsFocus(Head(items), sid)
    THEN RequeueLoop(Tail(items), q, sid, gen, requeued)
    ELSE IF CanSend(q)
    THEN RequeueLoop(Tail(items), Append(q, Restamp(Head(items), gen)),
                     sid, gen, requeued + 1)
    ELSE RequeueLoop(Tail(items), q, sid, gen, requeued)

\* the requeued field of handle_user_input's response (api.rs:412-416)
UserInputRequeued(sid) ==
    RequeueLoop(deferred, queue, sid, generation, 0).requeued

\* handle_user_input
HandleUserInput(sid) ==
    /\ LET c == CancelReminderTask
       IN  /\ reminder' = c.rem
           /\ pc' = [pc EXCEPT !["reminder"] = c.rpc]
           /\ tts' = Unlocked(tts, c.unlock)
    /\ deferred' = <<>>
    /\ queue' = RequeueLoop(deferred, queue, sid, generation, 0).queue
    /\ poller' = [poller EXCEPT !["reminder"] = CancelReminderTask.rpoll]
    /\ UNCHANGED <<enabled, generation, frame, c_job, nspeak>>

\* variant of handle_enable that starts a new generation at 0
HandleEnableResetsGeneration ==
    /\ enabled' = TRUE
    /\ generation' = 0
    /\ UNCHANGED <<queue, deferred, tts, reminder, pc, frame, poller, c_job,
                   nspeak>>

\* handle_enable
HandleEnable ==
    /\ enabled' = TRUE
    /\ UNCHANGED <<generation, queue, deferred, tts, reminder, pc, frame,
                   poller, c_job, nspeak>>

\* variant of handle_disable that leaves the generation alone
HandleDisableKeepsGeneration ==
    /\ generation < MaxGen
    /\ enabled' = FALSE
    /\ LET c == CancelReminderTask
       IN  /\ reminder' = c.rem
           /\ pc' = [pc EXCEPT !["reminder"] = c.rpc]
           /\ tts' = cancel(Unlocked(tts, c.unlock))
    /\ deferred' = <<>>
    /\ poller' = [poller EXCEPT !["reminder"] = CancelReminderTask.rpoll]
    /\ UNCHANGED <<generation, queue, frame, c_job, nspeak>>

\* handle_disable
HandleDisable ==
    /\ generation < MaxGen
    /\ enabled' = FALSE
    /\ generation' = generation + 1
    /\ LET c == CancelReminderTask
       IN  /\ reminder' = c.rem
           /\ pc' = [pc EXCEPT !["reminder"] = c.rpc]
           /\ tts' = cancel(Unlocked(tts, c.unlock))
    /\ deferred' = <<>>
    /\ poller' = [poller EXCEPT !["reminder"] = CancelReminderTask.rpoll]
    /\ UNCHANGED <<queue, frame, c_job, nspeak>>

(***************************************************************************)
(* The queue consumer (spawn_queue_consumer) and do_speak                  *)
(***************************************************************************)
NoFrame == [n |-> 0, idx |-> 0, cancelled |-> FALSE, audio |-> FALSE]

\* variant of the deferral rule that keeps retried jobs too
DeferAnyRetries(def, job) ==
    IF Len(def) < MAX_DEFERRED THEN Append(def, job) ELSE def

\* variant of the deferral rule that does not look at the length of the list
DeferNoCap(def, job) == IF job.retries = 0 THEN Append(def, job) ELSE def

\* the deferral rule of the consumer (api.rs:200-205 and 243-247): only
\* first-time jobs are kept, and only while the list has room
Defer(def, job) ==
    IF job.retries = 0 /\ Len(def) < MAX_DEFERRED THEN Append(def, job) ELSE def

\* variant of the receive that takes the job sent last
ConsumerRecvNewest ==
    /\ pc["consumer"] = "recv"
    /\ queue /= <<>>
    /\ c_job' = queue[Len(queue)]
    /\ queue' = SubSeq(queue, 1, Len(queue) - 1)
    /\ pc' = [pc EXCEPT !["consumer"] = "check"]
    /\ UNCHANGED <<enabled, generation, deferred, tts, reminder, frame,
                   poller, nspeak>>

\* rx.recv().await
ConsumerRecv ==
    /\ pc["consumer"] = "recv"
    /\ queue /= <<>>
    /\ c_job' = Head(queue)
    /\ queue' = Tail(queue)
    /\ pc' = [pc EXCEPT !["consumer"] = "check"]
    /\ UNCHANGED <<enabled, generation, deferred, tts, reminder, frame,
                   poller, nspeak>>

\* variant of the staleness test that lets every job through
NeverStale(job, current_gen) == FALSE

\* the staleness test (api.rs:196)
IsStale(job, current_gen) == job.generation /= current_gen

\* generation.load and the stale branch (api.rs:194-217)
ConsumerCheck ==
    /\ pc["consumer"] = "check"
    /\ IF IsStale(c_job, generation)
       THEN /\ deferred' = Defer(deferred, c_job)
            /\ c_job' = NoJob
            /\ pc' = [pc EXCEPT !["consumer"] = "recv"]
       ELSE /\ pc' = [pc EXCEPT !["consumer"] = "prep"]
            /\ UNCHANGED <<deferred, c_job>>
    /\ UNCHANGED <<enabled, generation, queue, tts, reminder, frame, poller,
                   nspeak>>

\* do_speak up to the summarizer: reminder.cancel, interrupt, clear_cancel
ConsumerPrep ==
    /\ pc["consumer"] = "prep"
    /\ LET c == CancelReminderTask
       IN  /\ reminder' = c.rem
           /\ tts' = clear_cancel(interrupt(Unlocked(tts, c.unlock)))
           /\ pc' = [pc EXCEPT !["reminder"] = c.rpc,
                               !["consumer"] = IF c_job.summarize
                                               THEN "summarize" ELSE "lock"]
    /\ frame' = [frame EXCEPT !["consumer"] = [NoFrame EXCEPT !.n = c_job.nsent]]
    /\ poller' = [poller EXCEPT !["reminder"] = CancelReminderTask.rpoll]
    /\ UNCHANGED <<enabled, generation, queue, deferred, c_job, nspeak>>

\* summarizer.summarize(&text).await.  The summary (or, when the request to
\* Ollama fails, the fallback truncation) is some non-blank text.  A text of
\* more than MAX_INPUT_CHARS bytes is cut by &text[..MAX_INPUT_CHARS]
\* (summarizer.rs:45-49), which panics when that byte is inside a
\* character: the consumer task ends, and the Receiver it owned is dropped
\* with the jobs still in the channel
ConsumerSummarize ==
    /\ pc["consumer"] = "summarize"
    /\ \E cut \in {"boundary", "inside"} :
          IF cut = "boundary"
          THEN /\ \E n \in 1..MaxSentences :
                     frame' = [frame EXCEPT !["consumer"].n = n]
               /\ pc' = [pc EXCEPT !["consumer"] = "lock"]
               /\ UNCHANGED <<queue, c_job>>
          ELSE /\ frame' = [frame EXCEPT !["consumer"] = NoFrame]
               /\ pc' = [pc EXCEPT !["consumer"] = "panicked"]
               /\ queue' = <<>>
               /\ c_job' = NoJob
    /\ UNCHANGED <<enabled, generation, deferred, tts, reminder, poller,
                   nspeak>>


(***************************************************************************)
(* KokoroTtsEngine::speak, run by the consumer (do_speak) and by the       *)
(* reminder task                                                           *)
(***************************************************************************)
\* the reminder task was aborted in the middle of a poll and now reaches an
\* await: the runtime drops it there
Dropped(c) == c = "reminder" /\ reminder.task = "aborted"

\* the loop of speak_inner moves to the next sentence or ends
NextSentence(f) ==
    IF f.idx < f.n THEN [f EXCEPT !.idx = @ + 1, !.audio = FALSE] ELSE f

AfterSentence(f) == IF f.idx < f.n THEN "gen" ELSE "ret"

\* speak: speak_lock.lock().await, cancel_flag = false, speaking = true;
\* speak_inner returns at once when the text has no sentence
SpeakLock(c) ==
    /\ pc[c] = "lock"
    /\ tts.speak_lock = "none"
    /\ tts' = [tts EXCEPT !.speak_lock = c, !.cancel_flag = FALSE,
                          !.speaking = TRUE]
    /\ frame' = [frame EXCEPT ![c] = [@ EXCEPT !.idx = 1, !.cancelled = FALSE,
                                               !.audio = FALSE]]
    /\ pc' = [pc EXCEPT ![c] = IF frame[c].n = 0 THEN "ret" ELSE "gen"]
    /\ UNCHANGED <<enabled, generation, queue, deferred, reminder, poller,
                   c_job, nspeak>>

\* speak_inner: the cancel check before generation (tts.rs:221) and
\* generate_audio, which yields samples, no samples, or an error
SpeakGen(c) ==
    /\ pc[c] = "gen"
    /\ IF tts.cancel_flag
       THEN /\ frame' = [frame EXCEPT ![c].cancelled = TRUE]
            /\ pc' = [pc EXCEPT ![c] = "ret"]
       ELSE \E out \in {"samples", "empty", "err"} :
              IF out = "err"
              THEN /\ frame' = [frame EXCEPT ![c] = NextSentence(@)]
                   /\ pc' = [pc EXCEPT ![c] = AfterSentence(frame[c])]
              ELSE /\ frame' = [frame EXCEPT ![c].audio = (out = "samples")]
                   /\ pc' = [pc EXCEPT ![c] = "chk"]
    /\ UNCHANGED <<enabled, generation, queue, deferred, tts, reminder,
                   poller, c_job, nspeak>>

\* speak_inner: the cancel check after generation (tts.rs:240-248)
SpeakChk(c) ==
    /\ pc[c] = "chk"
    /\ IF tts.cancel_flag
       THEN /\ frame' = [frame EXCEPT ![c].cancelled = TRUE]
            /\ pc' = [pc EXCEPT ![c] = "ret"]
       ELSE IF ~frame[c].audio
       THEN /\ frame' = [frame EXCEPT ![c] = NextSentence(@)]
            /\ pc' = [pc EXCEPT ![c] = AfterSentence(frame[c])]
       ELSE /\ pc' = [pc EXCEPT ![c] = "play"]
            /\ UNCHANGED frame
    /\ UNCHANGED <<enabled, generation, queue, deferred, tts, reminder,
                   poller, c_job, nspeak>>

\* play_audio up to the await (tts.rs:367-414): the sink is created, started
\* and stored in active_sink, and the poll loop is spawned on a blocking thread
SpeakPlay(c) ==
    /\ pc[c] = "play"
    /\ poller[c] = "none"
    /\ tts' = [tts EXCEPT !.active_sink = "playing",
                          !.speak_lock = IF Dropped(c) THEN "none" ELSE @]
    /\ poller' = [poller EXCEPT ![c] = "A"]
    /\ pc' = [pc EXCEPT ![c] = IF Dropped(c) THEN "none" ELSE "wait"]
    /\ reminder' = IF Dropped(c) THEN [reminder EXCEPT !.task = "none"]
                   ELSE reminder
    /\ frame' = IF Dropped(c) THEN [frame EXCEPT ![c] = NoFrame] ELSE frame
    /\ UNCHANGED <<enabled, generation, queue, deferred, c_job, nspeak>>

\* the result of a poll loop is kept for the play_audio awaiting it; nobody
\* awaits the loop of a dropped task
Returned(c, result) == IF pc[c] = "wait" THEN result ELSE "none"

\* poll loop: is the sink done? (tts.rs:391-401)
PollEmpty(c) ==
    /\ poller[c] = "A"
    /\ poller' = [poller EXCEPT ![c] = IF tts.active_sink /= "playing"
                                       THEN Returned(c, "false") ELSE "B"]
    /\ UNCHANGED <<enabled, generation, queue, deferred, tts, reminder, pc,
                   frame, c_job, nspeak>>

\* poll loop: the cancel check, else sleep 50 ms (tts.rs:404-411)
PollCancel(c) ==
    /\ poller[c] = "B"
    /\ IF tts.cancel_flag
       THEN /\ tts' = [tts EXCEPT !.active_sink = "none"]
            /\ poller' = [poller EXCEPT ![c] = Returned(c, "true")]
       ELSE /\ poller' = [poller EXCEPT ![c] = "A"]
            /\ UNCHANGED tts
    /\ UNCHANGED <<enabled, generation, queue, deferred, reminder, pc, frame,
                   c_job, nspeak>>

\* the audio of the sink runs out
SinkDrain ==
    /\ tts.active_sink = "playing"
    /\ tts' = [tts EXCEPT !.active_sink = "empty"]
    /\ UNCHANGED <<enabled, generation, queue, deferred, reminder, pc, frame,
                   poller, c_job, nspeak>>

\* play_audio after the await (tts.rs:414-420) and the rest of the loop body
\* of speak_inner (tts.rs:256-260)
SpeakWake(c) ==
    /\ pc[c] = "wait"
    /\ poller[c] \in {"false", "true"}
    /\ tts' = [tts EXCEPT !.active_sink = "none"]
    /\ poller' = [poller EXCEPT ![c] = "none"]
    /\ IF poller[c] = "true"
       THEN /\ frame' = [frame EXCEPT ![c].cancelled = TRUE]
            /\ pc' = [pc EXCEPT ![c] = "ret"]
       ELSE /\ frame' = [frame EXCEPT ![c] = NextSentence(@)]
            /\ pc' = [pc EXCEPT ![c] = AfterSentence(frame[c])]
    /\ UNCHANGED <<enabled, generation, queue, deferred, reminder, c_job,
                   nspeak>>

\* speak after speak_inner (tts.rs:197-198): speaking = false, the guard is
\* dropped; the reminder task loops to its sleep
SpeakRet(c) ==
    /\ pc[c] = "ret"
    /\ tts' = [tts EXCEPT !.speaking = FALSE, !.speak_lock = "none"]
    /\ IF c = "consumer"
       THEN /\ pc' = [pc EXCEPT ![c] = "tail"]
            /\ UNCHANGED <<frame, reminder>>
       ELSE /\ pc' = [pc EXCEPT ![c] = IF Dropped(c) THEN "none" ELSE "sleep"]
            /\ frame' = [frame EXCEPT ![c] = NoFrame]
            /\ reminder' = IF Dropped(c) THEN [reminder EXCEPT !.task = "none"]
                           ELSE reminder
    /\ UNCHANGED <<enabled, generation, queue, deferred, poller, c_job,
                   nspeak>>

\* ReminderManager::start after its cancel(): the task is spawned
ReminderStart(r, text) ==
    [r EXCEPT !.active = TRUE, !.count = 0, !.text = text, !.task = "running"]

\* do_speak after speak (api.rs:480-503) and the consumer's handling of the
\* result (api.rs:241-264)
ConsumerTail ==
    /\ pc["consumer"] = "tail"
    /\ LET cancelled == frame["consumer"].cancelled
           c == CancelReminderTask
       IN  /\ IF c_job.start_reminder /\ ~cancelled
              THEN /\ c.rpc = "none"
                   /\ reminder' = ReminderStart(c.rem, frame["consumer"].n)
                   /\ pc' = [pc EXCEPT !["consumer"] = "recv",
                                       !["reminder"] = "sleep"]
                   /\ tts' = Unlocked(tts, c.unlock)
                   /\ poller' = [poller EXCEPT !["reminder"] = c.rpoll]
              ELSE /\ pc' = [pc EXCEPT !["consumer"] = "recv"]
                   /\ UNCHANGED <<reminder, tts, poller>>
           /\ deferred' = IF cancelled THEN Defer(deferred, c_job) ELSE deferred
    /\ frame' = [frame EXCEPT !["consumer"] = NoFrame]
    /\ c_job' = NoJob
    /\ UNCHANGED <<enabled, generation, queue, nspeak>>

\* the reminder task's loop (reminder.rs:51-59): sleep, test active, count
ReminderWake ==
    /\ pc["reminder"] = "sleep"
    /\ reminder.count < MaxReminderCount
    /\ IF ~reminder.active
       THEN /\ pc' = [pc EXCEPT !["reminder"] = "none"]
            /\ reminder' = [reminder EXCEPT !.task = "none"]
            /\ UNCHANGED frame
       ELSE /\ reminder' = [reminder EXCEPT !.count = @ + 1]
            /\ frame' = [frame EXCEPT !["reminder"] =
                                        [NoFrame EXCEPT !.n = reminder.text]]
            /\ pc' = [pc EXCEPT !["reminder"] = "lock"]
    /\ UNCHANGED <<enabled, generation, queue, deferred, tts, poller, c_job,
                   nspeak>>

(***************************************************************************)
(* Hotkey monitor (hotkey.rs) and audio capture (recorder.rs)              *)
(***************************************************************************)
\* an edge in the channel; at is the orchestrator state when it was sent
Edge(ev) == [ev |-> ev, at |-> state]

\* tx.try_send: dropped when the channel is full
TrySend(ch, e) == IF Len(ch) < HOTKEY_CHANNEL_CAPACITY THEN Append(ch, e) ELSE ch

\* monitor_device: a key event makes a combo active or ends it
\* (hotkey.rs:194-204); the monitor sends at most max Pressed edges
HotkeyEdges(max) ==
    /\ proc.monitor = "monitoring"
    /\ IF ~hotkey_active
       THEN /\ dict_log.pressed < max
            /\ hotkey_rx' = TrySend(hotkey_rx, Edge("Pressed"))
            /\ dict_log' = [dict_log EXCEPT !.pressed = @ + 1]
       ELSE /\ hotkey_rx' = TrySend(hotkey_rx, Edge("Released"))
            /\ UNCHANGED dict_log
    /\ hotkey_active' = ~hotkey_active
    /\ UNCHANGED <<state, voice_is_idle, o_pc, recorder, cancel_http>>
    /\ UNCHANGED ttsVars
    /\ UNCHANGED <<scenario, voice, reply, hookVars, proc, restVars>>

HotkeyEdge == HotkeyEdges(MaxPress)

\* AudioRecorder::start
RecorderStart(r) ==
    [r EXCEPT !.is_recording = TRUE, !.buffer = "empty",
              !.should_auto_stop = FALSE]

\* AudioRecorder::stop: the buffer is moved out
RecorderStop(r) == [r EXCEPT !.is_recording = FALSE, !.buffer = "empty"]

\* the capture callback (recorder.rs:101-151) while armed: the chunk leaves
\* the buffer silent or audible as a whole, and the callback may find the cap
\* reached (disarm and latch), or a duration rule met (latch), or neither
CaptureCallback ==
    /\ recorder.is_recording
    /\ \E kind \in {"silent", "speech"}, stop \in {"none", "latch", "cap"} :
          recorder' = [recorder EXCEPT
                          !.buffer = kind,
                          !.is_recording = (stop /= "cap"),
                          !.should_auto_stop = @ \/ (stop /= "none")]
    /\ UNCHANGED <<state, voice_is_idle, hotkey_active, hotkey_rx, o_pc,
                   cancel_http, dict_log>>
    /\ UNCHANGED ttsVars
    /\ UNCHANGED <<scenario, voice, reply, hookVars, proc, restVars>>

(***************************************************************************)
(* Dictation orchestrator (service.rs)                                     *)
(***************************************************************************)
\* VoiceGate::begin_voice_input
begin_voice_input == voice_is_idle' = FALSE

\* VoiceGate::end_voice_input
end_voice_input == voice_is_idle' = TRUE

\* variant of transition_to_idle that leaves the voice gate alone
TransitionGateUntouched ==
    /\ state' = "Idle"
    /\ UNCHANGED voice_is_idle

\* DictationService::transition_to_idle
transition_to_idle ==
    /\ state' = "Idle"
    /\ end_voice_input

\* variant of a skip path that also appends a history record
SkipAndSave ==
    /\ dict_log' = [dict_log EXCEPT !.skips = @ + 1, !.records = @ + 1]
    /\ transition_to_idle
    /\ o_pc' = "select"

\* a skip path of on_hotkey_release: the reason is logged, nothing is saved
SkipToIdle ==
    /\ dict_log' = [dict_log EXCEPT !.skips = @ + 1]
    /\ transition_to_idle
    /\ o_pc' = "select"

\* history::save_record: the record is appended to the daily file, or an
\* error of the file system is logged and nothing is appended
save_record(log, written) ==
    IF written THEN [log EXCEPT !.records = @ + 1]
    ELSE [log EXCEPT !.save_errors = @ + 1]

\* the end of on_hotkey_release (service.rs:455-507): type, add_transcription,
\* history::save_record, transition_to_idle
SaveToIdle ==
    /\ \E written \in BOOLEAN : dict_log' = save_record(dict_log, written)
    /\ transition_to_idle
    /\ o_pc' = "select"

\* DictationService::on_hotkey_press
on_hotkey_press ==
    IF state /= "Idle"
    THEN UNCHANGED <<state, voice_is_idle, recorder, cancel_http, dict_log>>
    ELSE /\ cancel_http' = cancel_http + 1
         /\ begin_voice_input
         /\ state' = "Recording"
         /\ recorder' = RecorderStart(recorder)
         /\ dict_log' = [dict_log EXCEPT !.starts = @ + 1]

\* variant of on_hotkey_release without the test of the state
on_hotkey_release_any_state ==
    /\ recorder' = RecorderStop(recorder)
    /\ IF recorder.buffer \in {"empty", "silent"}
       THEN /\ dict_log' = [dict_log EXCEPT !.processing = @ + 1,
                                            !.skips = @ + 1]
            /\ transition_to_idle
            /\ o_pc' = "select"
       ELSE /\ dict_log' = [dict_log EXCEPT !.processing = @ + 1]
            /\ state' = "Processing"
            /\ o_pc' = "transcribe"
            /\ UNCHANGED voice_is_idle

\* DictationService::on_hotkey_release up to the transcription await
\* (service.rs:347-384): the state becomes PROCESSING ("State: RECORDING ->
\* PROCESSING" is logged) before the samples are looked at, and a recording
\* that is empty or silent goes on to IDLE in the same call
on_hotkey_release ==
    IF state /= "Recording"
    THEN UNCHANGED <<state, voice_is_idle, recorder, o_pc, dict_log>>
    ELSE /\ recorder' = RecorderStop(recorder)
         /\ IF recorder.buffer \in {"empty", "silent"}
            THEN /\ dict_log' = [dict_log EXCEPT !.processing = @ + 1,
                                                 !.skips = @ + 1]
                 /\ transition_to_idle
                 /\ o_pc' = "select"
            ELSE /\ dict_log' = [dict_log EXCEPT !.processing = @ + 1]
                 /\ state' = "Processing"
                 /\ o_pc' = "transcribe"
                 /\ UNCHANGED voice_is_idle

\* run: the hotkey_rx.recv() arm of the select (service.rs:308-317)
OrchRecv ==
    /\ o_pc = "select"
    /\ hotkey_rx /= <<>>
    /\ hotkey_rx' = Tail(hotkey_rx)
    /\ IF Head(hotkey_rx).ev = "Pressed"
       THEN on_hotkey_press /\ UNCHANGED o_pc
       ELSE on_hotkey_release /\ UNCHANGED cancel_http
    /\ UNCHANGED hotkey_active
    /\ UNCHANGED ttsVars
    /\ UNCHANGED <<scenario, voice, reply, hookVars, proc, restVars>>

\* run: the auto_stop_interval.tick() arm of the select (service.rs:318-324)
OrchAutoStop ==
    /\ o_pc = "select"
    /\ state = "Recording"
    /\ recorder.should_auto_stop
    /\ on_hotkey_release
    /\ UNCHANGED <<hotkey_active, hotkey_rx, cancel_http>>
    /\ UNCHANGED ttsVars
    /\ UNCHANGED <<scenario, voice, reply, hookVars, proc, restVars>>

\* on_hotkey_release from the transcription result to the Ollama await
\* (service.rs:385-452); direct: no Ollama call is made (mode Whisper, or the
\* word count is within skip_threshold)
TranscribeDone ==
    /\ o_pc = "transcribe"
    /\ \E result \in {"err", "panic", "empty", "hallucination", "text"},
          direct \in BOOLEAN :
          IF result /= "text"
          THEN SkipToIdle
          ELSE IF direct
          THEN SaveToIdle
          ELSE /\ o_pc' = "ollama"
               /\ UNCHANGED <<state, voice_is_idle, dict_log>>
    /\ UNCHANGED <<hotkey_active, hotkey_rx, recorder, cancel_http>>
    /\ UNCHANGED ttsVars
    /\ UNCHANGED <<scenario, voice, reply, hookVars, proc, restVars>>

\* on_hotkey_release after processor.process(..).await (service.rs:448-507)
OllamaDone ==
    /\ o_pc = "ollama"
    /\ SaveToIdle
    /\ UNCHANGED <<hotkey_active, hotkey_rx, recorder, cancel_http>>
    /\ UNCHANGED ttsVars
    /\ UNCHANGED <<scenario, voice, reply, hookVars, proc, restVars>>

\* cancel_tts: the spawned POST /cancel reaches the TTS API
CancelHttpDelivered ==
    /\ cancel_http > 0
    /\ cancel_http' = cancel_http - 1
    /\ HandleCancel
    /\ UNCHANGED <<state, voice_is_idle, hotkey_active, hotkey_rx, o_pc,
                   recorder, dict_log>>
    /\ UNCHANGED <<scenario, voice, reply, hookVars, proc, restVars>>

\* cancel_tts: Err(_) => {}, the TTS API is not running or the 500 ms
\* timeout of the client ran out
CancelHttpFailed ==
    /\ cancel_http > 0
    /\ cancel_http' = cancel_http - 1
    /\ UNCHANGED <<state, voice_is_idle, hotkey_active, hotkey_rx, o_pc,
                   recorder, dict_log>>
    /\ UNCHANGED ttsVars
    /\ UNCHANGED <<scenario, voice, reply, hookVars, proc, restVars>>

(***************************************************************************)
(* The hook dispatcher's files (bin/tts_hook.rs)                           *)
(***************************************************************************)
\* session ids, character by character: the first two differ only after
\* their eighth character
SessionA1 == <<"0", "a", "1", "b", "2", "c", "3", "d", "-", "1">>

SessionA2 == <<"0", "a", "1", "b", "2", "c", "3", "d", "-", "2">>

SessionB1 == <<"9", "f", "8", "e">>

HookSessions == {SessionA1, SessionA2, SessionB1}

\* no text: Option::None, an unreadable or missing file
NoText == ""

\* the assistant texts extract_last_assistant_text finds
HookTexts == {"t1", "t2"}

\* session_id.unwrap_or_default() of an event without a session_id
NoSession == <<>>

\* the focus file write_focus has just written (project left out); age is
\* what read_focus computes from its timestamp: the local time now minus the
\* local time it was written at, in whole hours
FocusState(session_id) ==
    [present |-> TRUE, session_id |-> session_id, age |-> 0]

\* no focus file; also Option::None of read_focus
NoFocus == [present |-> FALSE, session_id |-> NoSession, age |-> 0]

Min(a, b) == IF a < b THEN a ELSE b

\* dedup_file_for: the marker file is named after session_id[..min(len, 8)]
dedup_file_for(session_id) == SubSeq(session_id, 1, Min(Len(session_id), 8))

DedupFiles ==
    {dedup_file_for(sid) : sid \in HookSessions \cup {NoSession}}

\* variant of read_focus that does not look at the timestamp
read_focus_any_age == focus

\* read_focus: None when the file cannot be read, or when its timestamp is
\* more than 6 hours ago
read_focus ==
    IF ~focus.present THEN NoFocus
    ELSE IF focus.age > FOCUS_HOURS THEN NoFocus
    ELSE focus

\* is_focus_session
is_focus_session(session_id) ==
    IF read_focus.present THEN read_focus.session_id = session_id ELSE TRUE

\* is_tts_idle: GET /status, !speaking && !reminder_active
is_tts_idle == ~StatusResponse.speaking /\ ~StatusResponse.reminder_active

\* the HistoryRecord main saves for one event
HistoryRecord(ev, action, detail, text, up, is_focus) ==
    [event |-> ev.hook_event_name, action |-> action, detail |-> detail,
     text |-> text, tts_api_up |-> up, session_id |-> ev.session_id,
     is_focus |-> is_focus]

\* the record is about an event for which a POST /speak was sent
PostedSpeak(rec) == rec.action \in {"spoke", "spoke_background"}

\* no hook event yet: no focus file, no marker file, no history
InitHook ==
    /\ focus = NoFocus
    /\ dedup = [f \in DedupFiles |-> NoText]
    /\ hook_in = <<>>
    /\ hook_log = <<>>

\* variant of new whose cap is one sample too large
new_rounds_up(cfg) ==
    [buffer |-> <<>>, silence_start |-> None, recording_start |-> None,
     silence_config |-> cfg, max_samples |-> MaxSamples + 1]

\* AudioRecorder::new (recorder.rs:43-63) with the silence configuration cfg
new(cfg) ==
    [buffer |-> <<>>, silence_start |-> None, recording_start |-> None,
     silence_config |-> cfg, max_samples |-> MaxSamples]

\* the recorder of a service started with the longest durations
InitRec ==
    /\ clock = 0
    /\ inner = new([duration |-> SilenceTicks,
                    min_speech_duration |-> MaxMinSpeech,
                    max_recording_duration |-> MaxMaxRecording])

\* no function is being called
InitFn ==
    /\ arg = NoCall
    /\ ret = NoCall

\* the keys of the model and the key sets a configuration may name
Keys == {"KEY_LEFTMETA", "KEY_LEFTALT", "KEY_A"}

\* HotkeyMonitor::new with the default combo alone
DefaultCombos == {{"KEY_LEFTMETA", "KEY_LEFTALT"}}

NoKeyEvent == [device |-> 0, key |-> "", value |-> -1]

\* HotkeyMonitor::new (hotkey.rs:117-124): no key is held, no edge was sent
InitKeys ==
    /\ combos = DefaultCombos
    /\ pressed_keys = {}
    /\ key_log = [event |-> NoKeyEvent, sent |-> <<>>]

\* the reload flags the MCP tools set in the state file
Flags == {"vocabulary_updated", "corrections_updated"}

NoUpdate == [pc |-> "idle", state |-> {}, updates |-> ""]

NoReload == [pc |-> "idle", flag |-> "", state |-> {}, s |-> {}]

\* DictationService::new (service.rs:237) has written the state file, which
\* carries no flag; no tool call and no PROCESSING cycle is under way
InitCache ==
    /\ state_file = {}
    /\ update = NoUpdate
    /\ reload = NoReload
    /\ unseen = {}

\* the hook dispatcher processes the host tool has running at one time
Dispatchers == {1, 2}

\* a dispatcher that was not started
NoRun == [pc |-> "none", session_id |-> NoSession, text |-> NoText,
          is_focus |-> FALSE, previous |-> NoText, action |-> ""]

InitRace == dispatchers = [d \in Dispatchers |-> NoRun]

\* the service is ready: main has reached the select loop of
\* DictationService::run and the hotkey monitor has found a keyboard
InitProc == proc = [monitor |-> "monitoring", keyboards |-> 1, exit_code |-> -1]

(***************************************************************************)
(* Initial state: after DictationService::new, KokoroTtsEngine::new,       *)
(* ReminderManager::new and start_tts_api                                  *)
(***************************************************************************)
InitTts ==
    /\ enabled = TRUE
    /\ generation = 0
    /\ queue = <<>>
    /\ deferred = <<>>
    /\ tts = [cancel_flag |-> FALSE, speaking |-> FALSE, speak_lock |-> "none",
              active_sink |-> "none"]
    /\ reminder = [active |-> FALSE, count |-> 0, text |-> 0, task |-> "none"]
    /\ pc = [c \in Callers |-> IF c = "consumer" THEN "recv" ELSE "none"]
    /\ frame = [c \in Callers |-> NoFrame]
    /\ poller = [c \in Callers |-> "none"]
    /\ c_job = NoJob
    /\ nspeak = 0

InitDict ==
    /\ state = "Idle"
    /\ voice_is_idle = TRUE
    /\ hotkey_active = FALSE
    /\ hotkey_rx = <<>>
    /\ o_pc = "select"
    /\ recorder = [is_recording |-> FALSE, buffer |-> "empty",
                   should_auto_stop |-> FALSE]
    /\ cancel_http = 0
    /\ dict_log = [pressed |-> 0, starts |-> 0, processing |-> 0,
                   records |-> 0, skips |-> 0, save_errors |-> 0]

\* no request has been answered; the voice is config.voice
InitApi ==
    /\ voice = DefaultVoice
    /\ reply = NoReply

Init ==
    /\ InitTts
    /\ InitDict
    /\ InitApi
    /\ InitHook
    /\ InitProc
    /\ InitFn
    /\ sink_cut = FALSE
    /\ new_sink = [c \in Callers |-> "none"]
    /\ InitKeys
    /\ InitCache
    /\ InitRace
    /\ InitRec
    /\ scenario = 0

(***************************************************************************)
(* The TTS side: requests of the hook dispatcher and the tasks of          *)
(* start_tts_api; the dictation side does not move                         *)
(***************************************************************************)
DictIdle ==
    UNCHANGED <<dictVars, scenario, voice, reply, hookVars, proc, restVars>>

\* POST /speak with a text of 1..MaxSentences sentences or a blank one
ApiSpeak ==
    /\ nspeak < MaxSpeak
    /\ \E nsent \in 0..MaxSentences, sid \in SessionIds :
          HandleSpeak(nsent, FALSE, FALSE, sid)
    /\ DictIdle

ApiCancel == HandleCancel /\ DictIdle

ApiUserInput == HandleUserInput("s1") /\ DictIdle

ApiEnable == HandleEnable /\ DictIdle

ApiDisable == HandleDisable /\ DictIdle

Consumer ==
    /\ \/ ConsumerRecv
       \/ ConsumerCheck
       \/ ConsumerPrep
       \/ ConsumerSummarize
       \/ ConsumerTail
    /\ DictIdle

Speak(c) ==
    /\ \/ SpeakLock(c)
       \/ SpeakGen(c)
       \/ SpeakChk(c)
       \/ SpeakPlay(c)
       \/ SpeakWake(c)
       \/ SpeakRet(c)
    /\ DictIdle

Poll(c) == (PollEmpty(c) \/ PollCancel(c)) /\ DictIdle

Sink == SinkDrain /\ DictIdle

\* the queue engine: no request asks for a reminder
Next ==
    \/ ApiSpeak
    \/ ApiCancel
    \/ ApiUserInput
    \/ ApiEnable
    \/ ApiDisable
    \/ Consumer
    \/ Speak("consumer")
    \/ Poll("consumer")
    \/ Sink

Spec == Init /\ [][Next]_vars

(***************************************************************************)
(* The dictation side alone (config.tts.enabled = false: no TTS API)       *)
(***************************************************************************)
NextDict ==
    \/ HotkeyEdge
    \/ CaptureCallback
    \/ OrchRecv
    \/ OrchAutoStop
    \/ TranscribeDone
    \/ OllamaDone
    \/ CancelHttpFailed

SpecDict == Init /\ [][NextDict]_vars

(***************************************************************************)
(* The deferred list at its cap: more texts are sent than the list can     *)
(* hold                                                                    *)
(***************************************************************************)
\* POST /speak of a one-sentence text
CapSpeak ==
    /\ nspeak < MAX_DEFERRED + CapExtra
    /\ \E sid \in {"s1", "s2"} : HandleSpeak(1, FALSE, FALSE, sid)
    /\ DictIdle

\* the state after MAX_DEFERRED requests of session s2, a POST /cancel and
\* the consumer's pass over the queue: every job is deferred as stale
InitCap ==
    /\ InitDict
    /\ InitApi
    /\ InitHook
    /\ InitProc
    /\ InitFn
    /\ sink_cut = FALSE
    /\ new_sink = [c \in Callers |-> "none"]
    /\ InitKeys
    /\ InitCache
    /\ InitRace
    /\ InitRec
    /\ scenario = 0
    /\ enabled = TRUE
    /\ generation = 1
    /\ queue = <<>>
    /\ deferred = [i \in 1..MAX_DEFERRED |->
                      SpeakJob(i, 1, FALSE, FALSE, 0, "s2", 0)]
    /\ tts = [cancel_flag |-> TRUE, speaking |-> FALSE, speak_lock |-> "none",
              active_sink |-> "none"]
    /\ reminder = [active |-> FALSE, count |-> 0, text |-> 0, task |-> "none"]
    /\ pc = [c \in Callers |-> IF c = "consumer" THEN "recv" ELSE "none"]
    /\ frame = [c \in Callers |-> NoFrame]
    /\ poller = [c \in Callers |-> "none"]
    /\ c_job = NoJob
    /\ nspeak = MAX_DEFERRED

\* how the program gets to InitCap: MAX_DEFERRED requests of session s2, a
\* POST /cancel, and the consumer
FillSpeak ==
    /\ nspeak < MAX_DEFERRED
    /\ HandleSpeak(1, FALSE, FALSE, "s2")
    /\ DictIdle

NextFill ==
    \/ FillSpeak
    \/ ApiCancel
    \/ Consumer

SpecFill == Init /\ [][NextFill]_vars

NextCap ==
    \/ CapSpeak
    \/ ApiCancel
    \/ ApiUserInput
    \/ ApiDisable
    \/ Consumer
    \/ Speak("consumer")
    \/ Poll("consumer")
    \/ Sink

SpecCap == InitCap /\ [][NextCap]_vars


(***************************************************************************)
(* Dictation and TTS in one process (config.tts.enabled = true): the       *)
(* orchestrator's POST /cancel reaches the TTS API, and a hook sends one   *)
(* text to speak                                                           *)
(***************************************************************************)
\* POST /speak of a one-sentence text, summarized or not, with or without a
\* reminder
GateSpeak ==
    /\ nspeak < GateJobs
    /\ \E summarize \in BOOLEAN, start_reminder \in BOOLEAN :
          HandleSpeak(1, summarize, start_reminder, "s1")
    /\ DictIdle

ApiCancelReminder == HandleCancelReminder /\ DictIdle

ReminderTask == ReminderWake /\ DictIdle

NextGate ==
    \/ HotkeyEdge
    \/ CaptureCallback
    \/ OrchRecv
    \/ OrchAutoStop
    \/ TranscribeDone
    \/ OllamaDone
    \/ CancelHttpDelivered
    \/ CancelHttpFailed
    \/ GateSpeak
    \/ ApiCancelReminder
    \/ Consumer
    \/ ReminderTask
    \/ \E c \in Callers : Speak(c)
    \/ \E c \in Callers : Poll(c)
    \/ Sink

SpecGate == Init /\ [][NextGate]_vars


(***************************************************************************)
(* The scenario of three texts: A (session s1) and B (session s2) are      *)
(* queued at generation 0, then POST /cancel, POST /speak C (session s1),  *)
(* the consumer works through the queue, POST /user-input {s1}             *)
(***************************************************************************)
\* each text has 1..ScenSentences sentences
ScenSpeak(step, sid) ==
    /\ scenario = step
    /\ \E nsent \in 1..ScenSentences : HandleSpeak(nsent, FALSE, FALSE, sid)
    /\ scenario' = step + 1
    /\ UNCHANGED <<dictVars, voice, reply, hookVars, proc, restVars>>

ScenSpeakA == ScenSpeak(0, "s1")

ScenSpeakB == ScenSpeak(1, "s2")

ScenCancel ==
    /\ scenario = 2
    /\ HandleCancel
    /\ scenario' = 3
    /\ UNCHANGED <<dictVars, voice, reply, hookVars, proc, restVars>>

ScenSpeakC == ScenSpeak(3, "s1")

\* the request arrives once the consumer has been through A and B
ScenUserInput ==
    /\ scenario = 4
    /\ Len(deferred) = 2
    /\ HandleUserInput("s1")
    /\ scenario' = 5
    /\ UNCHANGED <<dictVars, voice, reply, hookVars, proc, restVars>>

\* the consumer and the synthesizer run from the /cancel on
ScenRun ==
    /\ scenario >= 3
    /\ \/ Consumer
       \/ Speak("consumer")
       \/ Poll("consumer")
       \/ Sink

NextScenario ==
    \/ ScenSpeakA
    \/ ScenSpeakB
    \/ ScenCancel
    \/ ScenSpeakC
    \/ ScenUserInput
    \/ ScenRun

SpecScenario == Init /\ [][NextScenario]_vars


(***************************************************************************)
(* The TTS API as its clients see it: every request is answered, and the   *)
(* answer of the last one is kept in reply                                 *)
(***************************************************************************)
ReqIdle == UNCHANGED <<dictVars, scenario, hookVars, proc, restVars>>

\* POST /speak of a blank text or of a one-sentence text
ReqSpeak ==
    /\ nspeak < ApiJobs
    /\ \E nsent \in 0..1, sid \in {"s1", "s2"} :
          /\ HandleSpeak(nsent, FALSE, FALSE, sid)
          /\ reply' = Reply("/speak", SpeakResponse(nsent))
    /\ UNCHANGED voice
    /\ ReqIdle

ReqCancel ==
    /\ HandleCancel
    /\ reply' = Reply("/cancel", Ok("cancelled"))
    /\ UNCHANGED voice
    /\ ReqIdle

ReqCancelReminder ==
    /\ HandleCancelReminder
    /\ reply' = Reply("/cancel-reminder", Ok("cancelled"))
    /\ UNCHANGED voice
    /\ ReqIdle

ReqUserInput ==
    /\ HandleUserInput("s1")
    /\ reply' = Reply("/user-input",
                      SimpleResponse("ok", "", UserInputRequeued("s1")))
    /\ UNCHANGED voice
    /\ ReqIdle

ReqEnable ==
    /\ HandleEnable
    /\ reply' = Reply("/enable", Ok("enabled"))
    /\ UNCHANGED voice
    /\ ReqIdle

ReqDisable ==
    /\ HandleDisable
    /\ reply' = Reply("/disable", Ok("disabled"))
    /\ UNCHANGED voice
    /\ ReqIdle

ReqSetVoice ==
    /\ \E v \in Voices \cup {"unknown"} :
          /\ HandleSetVoice(v)
          /\ reply' = Reply("/set-voice", SetVoiceResponse(v))
    /\ ReqIdle

\* GET /status: answered with a StatusResponse, computed from the state
ReqStatus ==
    /\ HandleStatus
    /\ UNCHANGED reply
    /\ ReqIdle

NextApi ==
    \/ ReqSpeak
    \/ ReqCancel
    \/ ReqCancelReminder
    \/ ReqUserInput
    \/ ReqEnable
    \/ ReqDisable
    \/ ReqSetVoice
    \/ ReqStatus
    \/ Consumer
    \/ Speak("consumer")
    \/ Poll("consumer")
    \/ Sink

SpecApi == Init /\ [][NextApi]_vars


(***************************************************************************)
(* The queue at its capacity: texts arrive faster than the consumer takes  *)
(* them                                                                    *)
(***************************************************************************)
\* the state after QUEUE_CAPACITY - 1 requests of session s2 that the
\* consumer has not looked at yet
InitFull ==
    /\ InitDict
    /\ InitApi
    /\ InitHook
    /\ InitProc
    /\ InitFn
    /\ sink_cut = FALSE
    /\ new_sink = [c \in Callers |-> "none"]
    /\ InitKeys
    /\ InitCache
    /\ InitRace
    /\ InitRec
    /\ scenario = 0
    /\ enabled = TRUE
    /\ generation = 0
    /\ queue = [i \in 1..(QUEUE_CAPACITY - 1) |->
                   SpeakJob(i, 1, FALSE, FALSE, 0, "s2", 0)]
    /\ deferred = <<>>
    /\ tts = [cancel_flag |-> FALSE, speaking |-> FALSE, speak_lock |-> "none",
              active_sink |-> "none"]
    /\ reminder = [active |-> FALSE, count |-> 0, text |-> 0, task |-> "none"]
    /\ pc = [c \in Callers |-> IF c = "consumer" THEN "recv" ELSE "none"]
    /\ frame = [c \in Callers |-> NoFrame]
    /\ poller = [c \in Callers |-> "none"]
    /\ c_job = NoJob
    /\ nspeak = QUEUE_CAPACITY - 1

\* POST /speak of a text of nsent sentences (0: blank text), to be
\* summarized or not
FullSpeakText(nsent) ==
    /\ \E sid \in {"s1", "s2"}, summarize \in BOOLEAN :
          HandleSpeak(nsent, summarize, FALSE, sid)
    /\ reply' = Reply("/speak", SpeakResponse(nsent))
    /\ UNCHANGED voice
    /\ ReqIdle

FullSpeak ==
    /\ nspeak < QUEUE_CAPACITY + FullExtra
    /\ \E nsent \in 0..1 : FullSpeakText(nsent)

NextFull ==
    \/ FullSpeak
    \/ ReqCancel
    \/ Consumer
    \/ Speak("consumer")
    \/ Poll("consumer")
    \/ Sink

SpecFull == InitFull /\ [][NextFull]_vars


(***************************************************************************)
(* Properties                                                              *)
(***************************************************************************)
\* the step in which play_audio starts the sink of caller c (tts.rs:385)
StartsPlaying(c) == pc[c] = "play" /\ pc'[c] /= "play"

\* the consumer is inside do_speak with the job it holds
InDoSpeak ==
    pc["consumer"] \in {"prep", "summarize", "lock", "gen", "chk", "play",
                        "wait", "ret", "tail"}

\* the job with text t is in the sequence
InSeq(sq, t) == \E i \in DOMAIN sq : sq[i].text = t

\* C1: a job whose generation stamp is older than the generation counter
\* never starts playing a sentence (Spec)
StaleJobNeverPlays ==
    [][StartsPlaying("consumer") => c_job.generation = generation]_vars

\* C2: no sink is started, for a queued job or for a reminder, while the
\* voice gate is closed (SpecGate)
NoPlayWhileGateClosed ==
    [][\A c \in Callers : StartsPlaying(c) => voice_is_idle]_vars

\* C3: the voice gate is open exactly when the orchestrator is Idle
\* (SpecDict)
GateOpenIffIdle == voice_is_idle <=> (state = "Idle")

\* C3 witness: the orchestrator is back in Idle with the gate open after a
\* cycle that saved a record and a cycle that was skipped
GateReopenedAfterCycles ==
    /\ state = "Idle"
    /\ voice_is_idle
    /\ dict_log.records >= 1
    /\ dict_log.skips >= 1

\* C4: no job in the queue, in the consumer's hands or in the deferred list
\* has retries above 1 (Spec)
RetriesAtMostOne ==
    /\ \A i \in DOMAIN queue : queue[i].retries <= 1
    /\ \A i \in DOMAIN deferred : deferred[i].retries <= 1
    /\ c_job /= NoJob => c_job.retries <= 1

\* C4 witness: the consumer holds a job that was re-queued once and is stale
\* again
RetriedJobStaleAgain ==
    /\ pc["consumer"] = "check"
    /\ c_job.retries = 1
    /\ IsStale(c_job, generation)

\* C5: the deferred list never holds more than MAX_DEFERRED jobs (SpecCap)
DeferredWithinCap == Len(deferred) <= MAX_DEFERRED

\* C5 witness: a first-time job was cancelled while it spoke and the
\* consumer is about to push it while the deferred list is full
CancelledPushAtCap ==
    /\ pc["consumer"] = "tail"
    /\ frame["consumer"].cancelled
    /\ c_job.retries = 0
    /\ Len(deferred) = MAX_DEFERRED

\* C6: POST /user-input {s1} empties the deferred list; drained jobs of
\* session "" or s1 are gone; the others are appended to the queue in order,
\* stamped with the current generation and retries + 1, as far as the queue
\* has room; requeued is the number of jobs appended (Spec)
UserInputDrains ==
    [][HandleUserInput("s1") =>
          LET other == SelectSeq(deferred,
                         LAMBDA j : j.session_id /= "" /\ j.session_id /= "s1")
              k == Len(queue') - Len(queue)
          IN  /\ deferred' = <<>>
              /\ k \in 0..Len(other)
              /\ k = Len(other) \/ ~CanSend(queue')
              /\ queue' = queue \o
                     [i \in 1..k |->
                        [other[i] EXCEPT !.generation = generation,
                                         !.retries = other[i].retries + 1]]
              /\ UserInputRequeued("s1") = k
              /\ \A i \in DOMAIN deferred :
                    deferred[i].session_id \in {"", "s1"}
                       => ~InSeq(queue', deferred[i].text)]_vars

\* C6 witness: two jobs were accepted and deferred; after a /user-input the
\* deferred list is empty, the job of session s2 is back in the queue with
\* the current generation and retries 1, and the other job is nowhere
RequeuedAfterUserInput ==
    /\ deferred = <<>>
    /\ c_job = NoJob
    /\ nspeak = 2
    /\ Len(queue) = 1
    /\ queue[1].retries = 1
    /\ queue[1].generation = generation
    /\ queue[1].session_id = "s2"

\* C7: in the three-text scenario A (text 1) never enters do_speak, B
\* (text 2) enters it only re-queued with generation 1 and retries 1 and
\* after C (text 3) has left the consumer, C carries generation 1 and is
\* never deferred, A and B are deferred before the /user-input and A is
\* nowhere after it (SpecScenario)
ScenarioOutcome ==
    /\ InDoSpeak =>
          \/ c_job.text = 3 /\ c_job.generation = 1 /\ c_job.retries = 0
          \/ /\ c_job.text = 2 /\ c_job.generation = 1 /\ c_job.retries = 1
             /\ scenario = 5
             /\ ~InSeq(queue, 3)
    /\ ~InSeq(deferred, 3)
    /\ \A i \in DOMAIN queue : queue[i].text = 3 => queue[i].generation = 1
    /\ scenario \in 2..4 =>
          \A t \in {1, 2} :
             \/ InSeq(queue, t)
             \/ c_job.text = t /\ pc["consumer"] = "check"
             \/ InSeq(deferred, t)
    /\ scenario = 5 =>
          /\ ~InSeq(queue, 1) /\ ~InSeq(deferred, 1) /\ c_job.text /= 1
          /\ \A i \in DOMAIN queue :
                queue[i].text = 2
                   => queue[i].generation = 1 /\ queue[i].retries = 1

\* C7 witness: B is playing after the /user-input
BPlaysAfterRequeue ==
    /\ scenario = 5
    /\ pc["consumer"] = "wait"
    /\ c_job.text = 2

\* C8: every recording that was started has ended with exactly one of a
\* call of save_record (a history record appended, or the failure to write
\* it logged) and a logged skip reason, except the one in progress (SpecDict)
CycleEndsOnce ==
    dict_log.records + dict_log.save_errors + dict_log.skips
        = dict_log.starts - (IF state = "Idle" THEN 0 ELSE 1)

\* C8 as stated: every finished cycle has appended a history record or
\* logged a skip reason (SpecDict)
CycleRecordOrSkip ==
    state = "Idle" => dict_log.records + dict_log.skips = dict_log.starts

\* C8 witness: two cycles have ended, one with a history record and one
\* with a skip
RecordAndSkipSeen ==
    /\ state = "Idle"
    /\ dict_log.starts = 2
    /\ dict_log.records = 1
    /\ dict_log.skips = 1

\* C9: handling a Pressed edge that was emitted while the orchestrator was
\* not Idle starts no recording, closes no gate and sends no cancel
\* (SpecDict)
LatePressIgnored ==
    [][(/\ o_pc = "select"
        /\ hotkey_rx /= <<>>
        /\ hotkey_rx' = Tail(hotkey_rx)
        /\ Head(hotkey_rx).ev = "Pressed"
        /\ Head(hotkey_rx).at /= "Idle")
          => UNCHANGED <<state, voice_is_idle, recorder, cancel_http>>]_vars

\* C10: while the engine is disabled the deferred list stays empty: every
\* job it could hold was accepted before the /disable (Spec)
DisabledDeferredEmpty == ~enabled => deferred = <<>>



\* C11: a POST /speak handled while the engine is disabled is answered
\* 'disabled' and leaves the queue, the deferred list, the generation, the
\* reminder, the synthesizer and the consumer as they were (SpecApi)
DisabledSpeakNoEffect ==
    [][(~enabled /\ ReqSpeak)
          => /\ reply' = Reply("/speak", Ok("disabled"))
             /\ UNCHANGED <<ttsVars, voice>>]_vars

\* C11 witness: the engine is disabled, jobs wait in the queue and the last
\* request, a POST /speak, was answered 'disabled'
DisabledSpeakAnswered ==
    /\ ~enabled
    /\ queue /= <<>>
    /\ reply = Reply("/speak", Ok("disabled"))


\* C12: POST /speak is always answered at once; with the engine enabled, a
\* job is appended to the queue with the current generation and retries 0
\* when the queue holds fewer than QUEUE_CAPACITY jobs, and is otherwise
\* answered 'queue full' with the queue unchanged; the queue never holds
\* more than QUEUE_CAPACITY jobs.  Stated for requests whose text is not
\* blank, the ones that carry a job (SpecFull)
SpeakAppendsOrQueueFull ==
    /\ [](/\ Len(queue) <= QUEUE_CAPACITY
          /\ ENABLED HandleSpeak(1, FALSE, FALSE, "s2"))
    /\ [][(enabled /\ FullSpeakText(1))
             => IF Len(queue) < QUEUE_CAPACITY
                THEN /\ reply'.body = Ok("queued")
                     /\ Len(queue') = Len(queue) + 1
                     /\ SubSeq(queue', 1, Len(queue)) = queue
                     /\ queue'[Len(queue')].generation = generation
                     /\ queue'[Len(queue')].retries = 0
                ELSE /\ reply'.body = Err("queue full")
                     /\ queue' = queue]_vars


\* C13: POST /cancel raises the generation by one and leaves the queue, the
\* deferred list, the enabled flag and the consumer's job and position as
\* they were (SpecApi)
CancelLeavesQueue ==
    [][HandleCancel
          => /\ generation' = generation + 1
             /\ UNCHANGED <<queue, deferred, enabled, c_job, frame, nspeak,
                            voice>>
             /\ pc'["consumer"] = pc["consumer"]
             /\ poller'["consumer"] = poller["consumer"]]_vars

\* C13 witness: a POST /cancel was the last request answered; a job it made
\* stale is still in the queue and the deferred list still holds a job
StaleJobStillQueued ==
    /\ reply = Reply("/cancel", Ok("cancelled"))
    /\ queue /= <<>>
    /\ queue[1].generation < generation
    /\ deferred /= <<>>


\* C14: POST /enable, and every step that turns the enabled flag on, changes
\* nothing but the flag: the generation, the queue, the deferred list, the
\* reminder, the synthesizer and the consumer stay as they were (SpecApi)
EnableOnlySetsFlag ==
    [][(ReqEnable \/ (~enabled /\ enabled'))
          => /\ enabled'
             /\ UNCHANGED <<generation, queue, deferred, tts, reminder, pc,
                            frame, poller, c_job, nspeak, voice>>]_vars

\* C14 witness: POST /enable was the last request answered; every job
\* accepted so far is gone or stale, and the deferred list is still empty
EnabledAfterWipe ==
    /\ reply = Reply("/enable", Ok("enabled"))
    /\ enabled
    /\ nspeak = ApiJobs
    /\ Len(queue) = 1
    /\ queue[1].generation < generation
    /\ deferred = <<>>
    /\ c_job = NoJob


\* C15: the generation never decreases; POST /cancel and POST /disable each
\* raise it by exactly one, and no other request and no step of the
\* consumer or the synthesizer changes it (SpecApi)
GenerationMonotonic ==
    [][/\ generation' >= generation
       /\ (ReqCancel \/ ReqDisable) => generation' = generation + 1
       /\ generation' /= generation => (ReqCancel \/ ReqDisable)]_vars

\* C15 witness: the generation has been raised twice, last by a POST
\* /disable, with a job accepted in between
GenerationRaisedTwice ==
    /\ generation = 2
    /\ reply = Reply("/disable", Ok("disabled"))
    /\ \E i \in DOMAIN queue : queue[i].generation = 1


\* C16: when a job starts playing a sentence, no job that POST /speak
\* accepted before it with the same generation is still waiting in the
\* queue for its first turn; the consumer holds one job at a time, so the
\* earlier ones were spoken, cancelled, deferred or dropped (Spec)
FifoPerGeneration ==
    [][StartsPlaying("consumer")
          => \A i \in DOMAIN queue :
                (queue[i].generation = c_job.generation /\ queue[i].retries = 0)
                   => queue[i].text > c_job.text]_vars

\* C16 witness: the first job accepted is playing while the second one, of
\* the same generation, waits in the queue
SecondWaitsForFirst ==
    /\ pc["consumer"] = "wait"
    /\ c_job.text = 1
    /\ queue /= <<>>
    /\ queue[1].text = 2
    /\ queue[1].generation = c_job.generation



\* C17: the queue consumer never stops: whatever a summarization or a
\* synthesis does, the consumer task is still running, so that every queued
\* job is eventually received and resolved (SpecFull)
ConsumerNeverStops == pc["consumer"] /= "panicked"



(***************************************************************************)
(* The hook dispatcher (bin/tts_hook.rs): one run of the binary per event  *)
(* of the host.  A run is one step: it reads its files, sends its HTTP     *)
(* requests to the TTS API, which handles each of them at once, and        *)
(* appends its history record.  SessionStart, PermissionRequest and        *)
(* Notification events touch neither the focus file nor a marker file and  *)
(* are left out.                                                           *)
(***************************************************************************)
\* the HookEvent read from stdin; text is what the transcript at
\* transcript_path yields
HookEvent(name, session_id, transcript_path, text) ==
    [hook_event_name |-> name, session_id |-> session_id,
     transcript_path |-> transcript_path, text |-> text]

HookEvents ==
    {HookEvent("Stop", sid, tr[1], tr[2]) :
        sid \in HookSessions,
        tr \in {<<FALSE, NoText>>, <<TRUE, NoText>>}
               \cup {<<TRUE, t>> : t \in HookTexts}}
    \cup {HookEvent("UserPromptSubmit", sid, FALSE, NoText) :
             sid \in HookSessions \cup {NoSession}}

\* cleanup_stale_files: a marker older than 24 hours is removed.  Only the
\* marker of the running session is looked at here: nothing reads another
\* marker before the next run of its own sessions removes it
cleanup_stale_files(files, f, aged) ==
    IF aged THEN [files EXCEPT ![f] = NoText] ELSE files

\* save_record
SaveHistory(ev, action, detail, text, up, is_focus) ==
    hook_log' = Append(hook_log,
                       HistoryRecord(ev, action, detail, text, up, is_focus))

\* client.post("/speak").json(&SpeakRequest {..}): the request carries no
\* session_id, so the job's is empty; the answer is not looked at
PostSpeak(summarize, start_reminder) ==
    /\ nspeak < HookJobs
    /\ HandleSpeak(1, summarize, start_reminder, "")
    /\ reply' = Reply("/speak", SpeakResponse(1))

\* variant of handle_stop that writes the marker only when it speaks
handle_stop_marks_spoken(ev, files, is_focus) ==
    LET f == dedup_file_for(ev.session_id)
    IN  IF ~ev.transcript_path
        THEN /\ SaveHistory(ev, "skipped", "no transcript path", NoText, TRUE,
                            is_focus)
             /\ dedup' = files
             /\ UNCHANGED <<ttsVars, reply>>
        ELSE IF ev.text = NoText
        THEN /\ SaveHistory(ev, "skipped", "no assistant text found", NoText,
                            TRUE, is_focus)
             /\ dedup' = files
             /\ UNCHANGED <<ttsVars, reply>>
        ELSE IF files[f] = ev.text
        THEN /\ dedup' = files
             /\ SaveHistory(ev, "skipped", "duplicate stop text", ev.text,
                            TRUE, is_focus)
             /\ UNCHANGED <<ttsVars, reply>>
        ELSE IF is_focus
        THEN /\ dedup' = [files EXCEPT ![f] = ev.text]
             /\ PostSpeak(TRUE, TRUE)
             /\ SaveHistory(ev, "spoke", "focus", ev.text, TRUE, is_focus)
        ELSE IF is_tts_idle
        THEN /\ dedup' = [files EXCEPT ![f] = ev.text]
             /\ PostSpeak(FALSE, FALSE)
             /\ SaveHistory(ev, "spoke_background", "non-focus idle",
                            "finished", TRUE, is_focus)
        ELSE /\ dedup' = files
             /\ SaveHistory(ev, "skipped", "non-focus busy", NoText, TRUE,
                            is_focus)
             /\ UNCHANGED <<ttsVars, reply>>

\* handle_stop; is_duplicate_stop reads the marker and writes the text
\* into it before the two are compared
handle_stop(ev, files, is_focus) ==
    LET f == dedup_file_for(ev.session_id)
    IN  IF ~ev.transcript_path
        THEN /\ SaveHistory(ev, "skipped", "no transcript path", NoText, TRUE,
                            is_focus)
             /\ dedup' = files
             /\ UNCHANGED <<ttsVars, reply>>
        ELSE IF ev.text = NoText
        THEN /\ SaveHistory(ev, "skipped", "no assistant text found", NoText,
                            TRUE, is_focus)
             /\ dedup' = files
             /\ UNCHANGED <<ttsVars, reply>>
        ELSE /\ dedup' = [files EXCEPT ![f] = ev.text]
             /\ IF files[f] = ev.text
                THEN /\ SaveHistory(ev, "skipped", "duplicate stop text",
                                    ev.text, TRUE, is_focus)
                     /\ UNCHANGED <<ttsVars, reply>>
                ELSE IF is_focus
                THEN /\ PostSpeak(TRUE, TRUE)
                     /\ SaveHistory(ev, "spoke", "focus", ev.text, TRUE,
                                    is_focus)
                ELSE IF is_tts_idle
                THEN /\ PostSpeak(FALSE, FALSE)
                     /\ SaveHistory(ev, "spoke_background", "non-focus idle",
                                    "finished", TRUE, is_focus)
                ELSE /\ SaveHistory(ev, "skipped", "non-focus busy", NoText,
                                    TRUE, is_focus)
                     /\ UNCHANGED <<ttsVars, reply>>

\* handle_user_prompt_submit
handle_user_prompt_submit(ev, is_focus) ==
    /\ focus' = IF ev.session_id /= NoSession
                THEN FocusState(ev.session_id)
                ELSE focus
    /\ HandleCancelReminder
    /\ reply' = Reply("/cancel-reminder", Ok("cancelled"))
    /\ SaveHistory(ev, "cancel_reminder", "focus", NoText, TRUE, is_focus)

\* main, for the event ev; up: GET /status is answered; aged: the marker of
\* the event's session is older than 24 hours
HookMain(ev, up, aged) ==
    LET f == dedup_file_for(ev.session_id)
        files == cleanup_stale_files(dedup, f, aged)
        is_focus == is_focus_session(ev.session_id)
    IN  /\ aged => dedup[f] /= NoText
        /\ hook_in' = Append(hook_in, [event |-> ev, aged |-> aged])
        /\ IF ~up
           THEN /\ SaveHistory(ev, "skipped", "TTS API unreachable", NoText,
                               FALSE, is_focus)
                /\ dedup' = files
                /\ UNCHANGED <<ttsVars, reply, focus>>
           ELSE IF ev.hook_event_name = "Stop"
           THEN handle_stop(ev, files, is_focus) /\ UNCHANGED focus
           ELSE handle_user_prompt_submit(ev, is_focus) /\ dedup' = files

HookRun ==
    /\ Len(hook_in) < 2 + MaxHook
    /\ \E ev \in HookEvents, up \in BOOLEAN, aged \in BOOLEAN :
          HookMain(ev, up, aged)
    /\ UNCHANGED <<dictVars, scenario, voice, proc, restVars>>

\* more than six hours pass since the focus file was written: read_focus
\* returns None from now on
FocusAges ==
    /\ focus.present
    /\ focus.age <= FOCUS_HOURS
    /\ focus' = [focus EXCEPT !.age = FOCUS_HOURS + 1]
    /\ UNCHANGED <<dedup, hook_in, hook_log>>
    /\ UNCHANGED <<ttsVars, dictVars, scenario, voice, reply, proc, restVars>>

NextHook ==
    \/ HookRun
    \/ FocusAges
    \/ Consumer
    \/ ReminderTask
    \/ \E c \in Callers : Speak(c)
    \/ \E c \in Callers : Poll(c)
    \/ Sink

\* the state after a UserPromptSubmit event and a Stop event of session B1,
\* both handled with the API reachable: B1 is the focus session, its text
\* "t2" is in the queue and in its marker
InitFocused ==
    LET prompt == HookEvent("UserPromptSubmit", SessionB1, FALSE, NoText)
        stop == HookEvent("Stop", SessionB1, TRUE, "t2")
    IN  /\ InitDict
        /\ InitProc
        /\ InitFn
        /\ sink_cut = FALSE
        /\ new_sink = [c \in Callers |-> "none"]
        /\ InitKeys
        /\ InitCache
        /\ InitRace
        /\ InitRec
        /\ scenario = 0
        /\ voice = DefaultVoice
        /\ enabled = TRUE
        /\ generation = 0
        /\ queue = <<SpeakJob(1, 1, TRUE, TRUE, 0, "", 0)>>
        /\ deferred = <<>>
        /\ tts = [cancel_flag |-> FALSE, speaking |-> FALSE,
                  speak_lock |-> "none", active_sink |-> "none"]
        /\ reminder = [active |-> FALSE, count |-> 0, text |-> 0,
                       task |-> "none"]
        /\ pc = [c \in Callers |-> IF c = "consumer" THEN "recv" ELSE "none"]
        /\ frame = [c \in Callers |-> NoFrame]
        /\ poller = [c \in Callers |-> "none"]
        /\ c_job = NoJob
        /\ nspeak = 1
        /\ reply = Reply("/speak", Ok("queued"))
        /\ focus = FocusState(SessionB1)
        /\ dedup = [f \in DedupFiles |->
                       IF f = dedup_file_for(SessionB1) THEN "t2" ELSE NoText]
        /\ hook_in = <<[event |-> prompt, aged |-> FALSE],
                       [event |-> stop, aged |-> FALSE]>>
        /\ hook_log = <<HistoryRecord(prompt, "cancel_reminder", "focus",
                                      NoText, TRUE, TRUE),
                        HistoryRecord(stop, "spoke", "focus", "t2", TRUE,
                                      TRUE)>>

\* the same steps from the initial state
SpecHookStart == Init /\ [][NextHook]_vars

SpecHook == InitFocused /\ [][NextHook]_vars



(***************************************************************************)
(* The hook dispatcher's runs, read from its inputs and its history        *)
(***************************************************************************)
\* run i handled a Stop event whose transcript yielded a text, with the
\* TTS API reachable: it got as far as is_duplicate_stop
StopRun(i) ==
    /\ hook_in[i].event.hook_event_name = "Stop"
    /\ hook_in[i].event.text /= NoText
    /\ hook_log[i].tts_api_up

\* runs i and j are about the same text of the same session
SameStop(i, j) ==
    /\ hook_in[i].event.session_id = hook_in[j].event.session_id
    /\ hook_in[i].event.text = hook_in[j].event.text

\* runs i and j use the same marker file
SameMarker(i, j) ==
    dedup_file_for(hook_in[i].event.session_id)
        = dedup_file_for(hook_in[j].event.session_id)

\* no Stop event of the session of run i came between runs i and j
ConsecutiveStops(i, j) ==
    /\ i < j
    /\ \A k \in (i + 1)..(j - 1) :
          ~(/\ hook_in[k].event.hook_event_name = "Stop"
            /\ hook_in[k].event.session_id = hook_in[i].event.session_id)

\* run i is not itself the repetition of the Stop event before it
FirstOfItsText(i) ==
    \A h \in 1..(i - 1) :
       ~(ConsecutiveStops(h, i) /\ StopRun(h) /\ SameStop(h, i))

\* between runs i and j the marker of run i was neither overwritten with
\* another text nor removed as older than 24 hours
MarkerKept(i, j) ==
    \A k \in (i + 1)..j :
       SameMarker(i, k)
          => /\ ~hook_in[k].aged
             /\ (k < j /\ StopRun(k))
                   => hook_in[k].event.text = hook_in[i].event.text

\* run j was skipped by is_duplicate_stop
SkippedAsDuplicate(j) ==
    /\ hook_log[j].action = "skipped"
    /\ hook_log[j].detail = "duplicate stop text"


HourPasses ==
    /\ focus.present
    /\ focus.age <= FOCUS_HOURS
    /\ focus' = [focus EXCEPT !.age = @ + 1]
    /\ UNCHANGED <<dedup, hook_in, hook_log>>
    /\ UNCHANGED <<ttsVars, dictVars, scenario, voice, reply, proc, restVars>>

\* the hook dispatcher is started with an event
FocusRun ==
    /\ Len(hook_in) < MaxFocusEvents
    /\ \E ev \in HookEvents, up \in BOOLEAN, aged \in BOOLEAN :
          HookMain(ev, up, aged)
    /\ UNCHANGED <<dictVars, scenario, voice, proc, restVars>>

NextFocus ==
    \/ FocusRun
    \/ HourPasses

SpecFocus == Init /\ [][NextFocus]_vars

\* C23: the event the hook dispatcher is started with is treated as one of
\* the focus session (is_focus of its history record, which handle_stop
\* decides by) exactly when there is no focus file, or the focus file is
\* more than 6 hours old, or it names the event's session_id; so a focus
\* file older than 6 hours leaves every session a focus session (SpecFocus)
FocusExactlyWhen ==
    [][Len(hook_in') > Len(hook_in)
          => LET ev == hook_in'[Len(hook_in')].event
                 record == hook_log'[Len(hook_log')]
             IN  /\ Len(hook_log') = Len(hook_log) + 1
                 /\ record.is_focus
                        = (\/ ~focus.present
                           \/ focus.age > FOCUS_HOURS
                           \/ focus.session_id = ev.session_id)
                 /\ focus.present /\ focus.age > FOCUS_HOURS
                        => record.is_focus]_vars

\* the focus file names another session and is more than 6 hours old: the
\* Stop event of this session was handled as one of the focus session
StaleFocusIgnored ==
    /\ hook_in /= <<>>
    /\ hook_log /= <<>>
    /\ focus.present
    /\ focus.age > FOCUS_HOURS
    /\ LET ev == hook_in[Len(hook_in)].event
           record == hook_log[Len(hook_log)]
       IN  /\ ev.hook_event_name = "Stop"
           /\ ev.session_id /= focus.session_id
           /\ record.session_id = ev.session_id
           /\ record.is_focus
           /\ record.action = "spoke"



\* C19: a UserPromptSubmit event of a session, handled with the TTS API
\* reachable, writes the focus file for that session and sends POST
\* /user-input to the TTS API (SpecHook)
PromptSubmitRequeues ==
    [][\A ev \in HookEvents :
          (/\ ev.hook_event_name = "UserPromptSubmit"
           /\ ev.session_id /= NoSession
           /\ \E aged \in BOOLEAN : HookMain(ev, TRUE, aged))
             => /\ focus' = FocusState(ev.session_id)
                /\ reply'.endpoint = "/user-input"]_vars



(***************************************************************************)
(* The process from main to its exit (main.rs, DictationService::run,      *)
(* HotkeyMonitor::run); config.tts.enabled = false.  exit_code is -1 while *)
(* the process runs                                                        *)
(***************************************************************************)
\* main returns: Ok(()) gives exit code 0, Err(e) exit code 1
Exit(code) ==
    /\ o_pc' = "exited"
    /\ proc' = [proc EXCEPT !.exit_code = code]

StartIdle ==
    /\ UNCHANGED <<state, voice_is_idle, hotkey_active, hotkey_rx, recorder,
                   cancel_http, dict_log>>
    /\ UNCHANGED ttsVars
    /\ UNCHANGED <<scenario, voice, reply, hookVars, restVars>>

\* main: WhisperTranscriber::load(..).await?? (main.rs:64-71)
MainLoadModel ==
    /\ o_pc = "load_model"
    /\ \E loaded \in BOOLEAN :
          IF loaded
          THEN o_pc' = "open_stream" /\ UNCHANGED proc
          ELSE Exit(1)
    /\ StartIdle

\* run: self.recorder.open_stream()?, the hotkey channel and the spawn of
\* the hotkey monitor task (service.rs:288-301)
RunOpenStream ==
    /\ o_pc = "open_stream"
    /\ \E opened \in BOOLEAN :
          IF opened
          THEN /\ o_pc' = "select"
               /\ proc' = [proc EXCEPT !.monitor = "spawned"]
          ELSE Exit(1)
    /\ StartIdle

\* HotkeyMonitor::run up to the spawn of the device tasks: with no keyboard
\* it panics, which ends the monitor task and drops hotkey_tx with it
MonitorRun ==
    /\ proc.monitor = "spawned"
    /\ proc.exit_code = -1
    /\ \E found \in 0..MaxKeyboards :
          proc' = [proc EXCEPT !.keyboards = found,
                               !.monitor = IF found = 0 THEN "panicked"
                                           ELSE "monitoring"]
    /\ UNCHANGED o_pc
    /\ StartIdle

\* monitor_device: the device disconnects; run returns after the last one,
\* which drops hotkey_tx
MonitorDisconnect ==
    /\ proc.monitor = "monitoring"
    /\ proc.exit_code = -1
    /\ proc' = [proc EXCEPT !.keyboards = @ - 1,
                            !.monitor = IF proc.keyboards = 1 THEN "ended"
                                        ELSE "monitoring"]
    /\ UNCHANGED o_pc
    /\ StartIdle

\* run: hotkey_rx.recv() yields None once every sender is dropped and the
\* channel is empty; the loop breaks, run returns Ok(()) and so does main
\* (service.rs:311-314, 329; main.rs:124-126)
OrchRecvClosed ==
    /\ o_pc = "select"
    /\ proc.monitor \in {"panicked", "ended"}
    /\ hotkey_rx = <<>>
    /\ Exit(0)
    /\ StartIdle

\* the service's tasks and threads run while the process does
Alive == proc.exit_code = -1

\* main has been entered: nothing is loaded, no task is spawned
InitStart ==
    /\ InitTts
    /\ InitApi
    /\ InitHook
    /\ scenario = 0
    /\ state = "Idle"
    /\ voice_is_idle = TRUE
    /\ hotkey_active = FALSE
    /\ hotkey_rx = <<>>
    /\ o_pc = "load_model"
    /\ recorder = [is_recording |-> FALSE, buffer |-> "empty",
                   should_auto_stop |-> FALSE]
    /\ cancel_http = 0
    /\ dict_log = [pressed |-> 0, starts |-> 0, processing |-> 0,
                   records |-> 0, skips |-> 0, save_errors |-> 0]
    /\ proc = [monitor |-> "none", keyboards |-> 0, exit_code |-> -1]
    /\ InitRec
    /\ InitFn
    /\ sink_cut = FALSE
    /\ new_sink = [c \in Callers |-> "none"]
    /\ InitKeys
    /\ InitCache
    /\ InitRace

NextStart ==
    \/ MainLoadModel
    \/ RunOpenStream
    \/ MonitorRun
    \/ MonitorDisconnect
    \/ OrchRecvClosed
    \/ Alive /\ HotkeyEdge
    \/ Alive /\ CaptureCallback
    \/ Alive /\ OrchRecv
    \/ Alive /\ OrchAutoStop
    \/ Alive /\ TranscribeDone
    \/ Alive /\ OllamaDone
    \/ Alive /\ CancelHttpFailed

SpecStart == InitStart /\ [][NextStart]_vars


\* C20: when find_keyboards returns no keyboard, the process does not end
\* with exit code 0: it fails with a non-zero exit code (SpecStart)
NoKeyboardIsFatal == proc.monitor = "panicked" => proc.exit_code /= 0


(***************************************************************************)
(* The recorder in detail (recorder.rs): the samples of the buffer, the    *)
(* clock the capture callback reads and the rules of the silence tracker.  *)
(* recorder keeps is_recording and should_auto_stop, and in buffer what    *)
(* on_hotkey_release would find in the samples                             *)
(***************************************************************************)
RECURSIVE sum_sq(_)
\* samples.iter().map(|s| s * s).sum() (recorder.rs:216)
sum_sq(samples) ==
    IF samples = <<>> THEN 0
    ELSE Head(samples) * Head(samples) + sum_sq(Tail(samples))

\* AudioRecorder::is_silent with rms_energy: sqrt(sum_sq / len) < threshold,
\* compared in squares; the energy of no samples is 0.0
is_silent(samples) ==
    IF samples = <<>> THEN 0 < ThresholdSq
    ELSE sum_sq(samples) < ThresholdSq * Len(samples)

\* what on_hotkey_release finds in the samples stop() returns
\* (service.rs:355-368)
Loudness(samples) ==
    IF samples = <<>> THEN "empty"
    ELSE IF is_silent(samples) THEN "silent"
    ELSE "speech"

\* Instant::elapsed of a Some(instant)
Elapsed(instant) == clock - instant[1]

\* RecorderInner, put together from recorder and inner
RecorderInner ==
    [is_recording |-> recorder.is_recording,
     buffer |-> inner.buffer,
     silence_start |-> inner.silence_start,
     recording_start |-> inner.recording_start,
     should_auto_stop |-> recorder.should_auto_stop]

\* r is written back to recorder and inner
SetRecorderInner(r) ==
    /\ recorder' = [is_recording |-> r.is_recording,
                    buffer |-> Loudness(r.buffer),
                    should_auto_stop |-> r.should_auto_stop]
    /\ inner' = [inner EXCEPT !.buffer = r.buffer,
                              !.silence_start = r.silence_start,
                              !.recording_start = r.recording_start]

\* variant of the silence rule that does not wait for min_speech_duration
SilenceRuleAtOnce(r, data) ==
    IF is_silent(data)
    THEN LET since == IF r.silence_start = None THEN Some(clock)
                      ELSE r.silence_start
         IN  [r EXCEPT !.silence_start = since,
                       !.should_auto_stop =
                           @ \/ Elapsed(since) >= inner.silence_config.duration]
    ELSE [r EXCEPT !.silence_start = None]

\* the capture callback from the min_speech_duration test on
\* (recorder.rs:131-149)
SilenceRule(r, data) ==
    IF Elapsed(r.recording_start) < inner.silence_config.min_speech_duration
    THEN r
    ELSE IF is_silent(data)
    THEN LET since == IF r.silence_start = None THEN Some(clock)
                      ELSE r.silence_start
         IN  [r EXCEPT !.silence_start = since,
                       !.should_auto_stop =
                           @ \/ Elapsed(since) >= inner.silence_config.duration]
    ELSE [r EXCEPT !.silence_start = None]

\* variant of the capture callback without the max_recording_duration rule
captureUntilSilence(r, data) ==
    LET remaining == IF inner.max_samples > Len(r.buffer)
                     THEN inner.max_samples - Len(r.buffer) ELSE 0
        to_copy == Min(Len(data), remaining)
        filled == [r EXCEPT !.buffer = @ \o SubSeq(data, 1, to_copy)]
    IN  IF ~r.is_recording THEN r
        ELSE IF Len(filled.buffer) >= inner.max_samples
        THEN [filled EXCEPT !.is_recording = FALSE, !.should_auto_stop = TRUE]
        ELSE IF r.recording_start = None THEN filled
        ELSE SilenceRule(filled, data)

\* the capture callback of open_stream (recorder.rs:101-151) on RecorderInner
capture(r, data) ==
    LET remaining == IF inner.max_samples > Len(r.buffer)
                     THEN inner.max_samples - Len(r.buffer) ELSE 0
        to_copy == Min(Len(data), remaining)
        filled == [r EXCEPT !.buffer = @ \o SubSeq(data, 1, to_copy)]
    IN  IF ~r.is_recording THEN r
        ELSE IF Len(filled.buffer) >= inner.max_samples
        THEN [filled EXCEPT !.is_recording = FALSE, !.should_auto_stop = TRUE]
        ELSE IF r.recording_start = None THEN filled
        ELSE IF Elapsed(r.recording_start)
                    >= inner.silence_config.max_recording_duration
        THEN [filled EXCEPT !.should_auto_stop = TRUE]
        ELSE SilenceRule(filled, data)

\* AudioRecorder::start (recorder.rs:167-175)
start(r) ==
    [r EXCEPT !.buffer = <<>>, !.is_recording = TRUE, !.silence_start = None,
              !.recording_start = Some(clock), !.should_auto_stop = FALSE]

\* variant of stop that leaves the samples in the buffer
stop_keeps_buffer(r) == [r EXCEPT !.is_recording = FALSE]

\* AudioRecorder::stop (recorder.rs:178-185): mem::take of the buffer
stop(r) == [r EXCEPT !.is_recording = FALSE, !.buffer = <<>>]

RecIdle ==
    /\ UNCHANGED ttsVars
    /\ UNCHANGED <<scenario, voice, reply, hookVars, proc, fnVars, sinkVars, keyVars, cacheVars, dispatchers>>

\* time passes
Tick ==
    /\ clock < MaxClock
    /\ clock' = clock + 1
    /\ UNCHANGED <<dictVars, inner>>
    /\ RecIdle

\* the audio host calls the capture callback with a chunk
RecCallback ==
    /\ \E data \in Chunks : SetRecorderInner(capture(RecorderInner, data))
    /\ UNCHANGED <<state, voice_is_idle, hotkey_active, hotkey_rx, o_pc,
                   cancel_http, dict_log, clock>>
    /\ RecIdle

\* run: the hotkey_rx.recv() arm of the select (service.rs:308-317), with
\* the samples start() and stop() clear
RecRecv ==
    /\ o_pc = "select"
    /\ hotkey_rx /= <<>>
    /\ hotkey_rx' = Tail(hotkey_rx)
    /\ IF Head(hotkey_rx).ev = "Pressed"
       THEN /\ on_hotkey_press
            /\ inner' = IF state = "Idle"
                        THEN [inner EXCEPT
                                 !.buffer = start(RecorderInner).buffer,
                                 !.silence_start = None,
                                 !.recording_start = Some(clock)]
                        ELSE inner
            /\ UNCHANGED o_pc
       ELSE /\ on_hotkey_release
            /\ inner' = IF state = "Recording"
                        THEN [inner EXCEPT
                                 !.buffer = stop(RecorderInner).buffer]
                        ELSE inner
            /\ UNCHANGED cancel_http
    /\ UNCHANGED <<hotkey_active, clock>>
    /\ RecIdle

\* variant of the poll that looks at the latch only while the capturer is
\* armed
RecAutoStopWhileArmed ==
    /\ o_pc = "select"
    /\ state = "Recording"
    /\ recorder.should_auto_stop
    /\ recorder.is_recording
    /\ on_hotkey_release
    /\ inner' = [inner EXCEPT !.buffer = stop(RecorderInner).buffer]
    /\ UNCHANGED <<hotkey_active, hotkey_rx, cancel_http, clock>>
    /\ RecIdle

\* run: the auto_stop_interval.tick() arm of the select (service.rs:318-324)
RecAutoStop ==
    /\ o_pc = "select"
    /\ state = "Recording"
    /\ recorder.should_auto_stop
    /\ on_hotkey_release
    /\ inner' = [inner EXCEPT !.buffer = stop(RecorderInner).buffer]
    /\ UNCHANGED <<hotkey_active, hotkey_rx, cancel_http, clock>>
    /\ RecIdle

NextRec ==
    \/ HotkeyEdge
    \/ Tick
    \/ RecCallback
    \/ RecRecv
    \/ RecAutoStop
    \/ TranscribeDone
    \/ OllamaDone
    \/ CancelHttpFailed

\* the service is started with any of the silence configurations
InitAnyConfig ==
    /\ InitTts
    /\ InitDict
    /\ InitApi
    /\ InitHook
    /\ InitProc
    /\ InitFn
    /\ sink_cut = FALSE
    /\ new_sink = [c \in Callers |-> "none"]
    /\ InitKeys
    /\ InitCache
    /\ InitRace
    /\ scenario = 0
    /\ clock = 0
    /\ \E cfg \in SilenceConfigs : inner = new(cfg)

SpecRec == InitAnyConfig /\ [][NextRec]_vars

\* recorder shows what the samples are
RecorderAgrees ==
    /\ recorder.buffer = Loudness(inner.buffer)
    /\ recorder.is_recording => inner.recording_start /= None


\* the auto-stop latch goes from unset to set
LatchSet == ~recorder.should_auto_stop /\ recorder'.should_auto_stop

\* the armed capturer is in the first min_speech_duration after start()
BeforeMinSpeech ==
    /\ recorder.is_recording
    /\ Elapsed(inner.recording_start)
           < inner.silence_config.min_speech_duration

\* C21: while less than min_speech_duration has elapsed since start(), a
\* step that sets the auto-stop latch is a capture callback that filled the
\* buffer to its cap or found max_recording_duration reached; silence never
\* sets it, however many silent chunks arrive (SpecRec)
NoSilenceStopBeforeMinSpeech ==
    [][BeforeMinSpeech /\ LatchSet
           => \/ Len(inner'.buffer) >= inner.max_samples
              \/ Elapsed(inner.recording_start)
                     >= inner.silence_config.max_recording_duration]_vars

\* two silent chunks have arrived, the second after silence.duration, within
\* min_speech_duration and the latch is unset
SilentChunksBeforeMinSpeech ==
    /\ BeforeMinSpeech
    /\ Elapsed(inner.recording_start) >= inner.silence_config.duration
    /\ Len(inner.buffer) >= ChunkSize + ChunkSize
    /\ is_silent(inner.buffer)
    /\ ~recorder.should_auto_stop


\* the armed capturer has been recording for max_recording_duration
MaxRecordingReached ==
    /\ recorder.is_recording
    /\ Elapsed(inner.recording_start)
           >= inner.silence_config.max_recording_duration

\* C22: once the time since start() has reached max_recording_duration, the
\* next capture callback of the armed capturer sets the auto-stop latch
\* whatever the chunk is; the auto-stop poll that finds the latch set enters
\* PROCESSING without taking an edge from the hotkey channel; and while the
\* latch is set in RECORDING the orchestrator is in its select loop, where
\* that poll is due every 100 ms (SpecRec)
MaxRecordingStops ==
    /\ [][RecCallback /\ MaxRecordingReached
              => recorder'.should_auto_stop]_vars
    /\ [][RecAutoStop
              => /\ dict_log'.processing = dict_log.processing + 1
                 /\ state' /= "Recording"
                 /\ hotkey_rx' = hotkey_rx]_vars
    /\ [](state = "Recording" /\ recorder.should_auto_stop
              => o_pc = "select")

\* a recording of loud chunks was stopped by the poll after
\* max_recording_duration, with the key still held, and is being transcribed
StoppedAtMaxRecording ==
    /\ state = "Processing"
    /\ hotkey_active
    /\ hotkey_rx = <<>>
    /\ recorder.should_auto_stop
    /\ inner.silence_start = None
    /\ Elapsed(inner.recording_start)
           >= inner.silence_config.max_recording_duration


(***************************************************************************)
(* split_sentences (tts.rs:503-529).  A text is a sequence of characters;  *)
(* a &str slice of it is the half-open range [from, to) of its offsets.    *)
(* The bytes the function tests are ASCII, so each offset it cuts at is a  *)
(* character boundary                                                      *)
(***************************************************************************)
\* b'.', b'!', b'?'
Terminators == {".", "!", "?"}

\* u8::is_ascii_whitespace, of the characters of TextChars
IsAsciiWhitespace(c) == c = " "

\* char::is_whitespace: U+00A0 is white space and is not ASCII
IsWhitespace(c) == c \in {" ", "nbsp"}

TextChars == {"a", ".", "!", "?", " ", "nbsp"}

Texts == UNION {[1..n -> TextChars] : n \in 0..MaxText}

RECURSIVE TrimStart(_, _, _)
TrimStart(text, from, to) ==
    IF from < to /\ IsWhitespace(text[from + 1])
    THEN TrimStart(text, from + 1, to)
    ELSE from

RECURSIVE TrimEnd(_, _, _)
TrimEnd(text, from, to) ==
    IF from < to /\ IsWhitespace(text[to])
    THEN TrimEnd(text, from, to - 1)
    ELSE to

\* text[from..to].trim()
Trim(text, from, to) ==
    LET f == TrimStart(text, from, to)
    IN  [from |-> f, to |-> TrimEnd(text, f, to)]

\* if !s.is_empty() { sentences.push(s) }
PushNonEmpty(sentences, s) ==
    IF s.from = s.to THEN sentences ELSE Append(sentences, s)

\* variant of the loop of split_sentences that cuts after every terminator
RECURSIVE SplitAtEveryTerminator(_, _, _, _)
SplitAtEveryTerminator(text, i, from, sentences) ==
    IF i = Len(text)
    THEN PushNonEmpty(sentences, Trim(text, from, Len(text)))
    ELSE IF text[i + 1] \in Terminators
    THEN SplitAtEveryTerminator(text, i + 1, i + 1,
                     PushNonEmpty(sentences, Trim(text, from, i + 1)))
    ELSE SplitAtEveryTerminator(text, i + 1, from, sentences)

\* the loop of split_sentences from byte i on, and the remainder
RECURSIVE SplitFrom(_, _, _, _)
SplitFrom(text, i, from, sentences) ==
    IF i = Len(text)
    THEN PushNonEmpty(sentences, Trim(text, from, Len(text)))
    ELSE IF /\ text[i + 1] \in Terminators
            /\ i + 1 < Len(text)
            /\ IsAsciiWhitespace(text[i + 2])
    THEN SplitFrom(text, i + 1, i + 1,
                   PushNonEmpty(sentences, Trim(text, from, i + 1)))
    ELSE SplitFrom(text, i + 1, from, sentences)

split_sentences(text) == SplitFrom(text, 0, 0, <<>>)

FnIdle ==
    /\ UNCHANGED <<ttsVars, dictVars, scenario, voice, reply, hookVars, proc>>
    /\ UNCHANGED <<recVars, sinkVars, keyVars, cacheVars, dispatchers>>

\* speak_inner: let sentences = split_sentences(text) (tts.rs:210)
CallSplitSentences ==
    /\ ret = NoCall
    /\ ret' = FnReturned(split_sentences(arg))
    /\ UNCHANGED arg
    /\ FnIdle

\* split_sentences is about to be called with any text
InitSplit ==
    /\ InitTts
    /\ InitDict
    /\ InitApi
    /\ InitHook
    /\ InitProc
    /\ InitRec
    /\ scenario = 0
    /\ arg \in Texts
    /\ ret = NoCall
    /\ sink_cut = FALSE
    /\ new_sink = [c \in Callers |-> "none"]
    /\ InitKeys
    /\ InitCache
    /\ InitRace

SpecSplit == InitSplit /\ [][CallSplitSentences]_vars

\* the characters of text in [from, to)
Slice(text, from, to) == SubSeq(text, from + 1, to)

AllWhitespace(s) == \A k \in 1..Len(s) : IsWhitespace(s[k])

\* C24: the sentences split_sentences returns are non-empty slices of the
\* text, in the order of the text and not overlapping; what lies before the
\* first, between two of them and after the last is white space only, so
\* that joining them with the white space between them gives the trimmed
\* text; and each sentence but the last ends with '.', '!' or '?' directly
\* followed by a white space character (SpecSplit)
SplitLosesNothing ==
    ret.called =>
        LET n == Len(ret.value)
            whole == Trim(arg, 0, Len(arg))
        IN  /\ \A k \in 1..n : ret.value[k].from < ret.value[k].to
            /\ \A k \in 1..n : ~IsWhitespace(arg[ret.value[k].from + 1])
                                  /\ ~IsWhitespace(arg[ret.value[k].to])
            /\ \A k \in 1..(n - 1) :
                  /\ ret.value[k].to <= ret.value[k + 1].from
                  /\ AllWhitespace(Slice(arg, ret.value[k].to, ret.value[k + 1].from))
                  /\ arg[ret.value[k].to] \in Terminators
                  /\ IsWhitespace(arg[ret.value[k].to + 1])
            /\ IF n = 0 THEN whole.from = whole.to
               ELSE /\ ret.value[1].from = whole.from
                    /\ ret.value[n].to = whole.to

\* a text of three sentences, cut after a '.' and after a '?'
ThreeSentencesSplit ==
    /\ ret.called
    /\ Len(ret.value) = 3
    /\ arg[ret.value[1].to] = "."
    /\ arg[ret.value[2].to] = "?"


(***************************************************************************)
(* generate_audio up to the inference call (tts.rs:289-316).  Of a phoneme *)
(* string the model keeps how many of its characters are in the vocabulary *)
(* and how many are not; every known character has the token id TokenId    *)
(***************************************************************************)
\* usize::saturating_sub
saturating_sub(a, b) == IF a > b THEN a - b ELSE 0

\* phoneme strings: known and unknown characters
Phonemes == [known : 0..MaxKnown, unknown : 0..MaxUnknown]

\* token_ids: the start padding, the ids of the known characters, the end
\* padding (tts.rs:294-302)
token_ids(phonemes) ==
    [i \in 1..(phonemes.known + 2) |->
        IF i = 1 \/ i = phonemes.known + 2 THEN 0 ELSE TokenId]

\* variant of generate_audio that does not clamp the token count
generate_audio_unclamped(phonemes) ==
    IF phonemes.known + phonemes.unknown = 0
    THEN [inference |-> FALSE, tokens |-> <<>>, style_idx |-> 0]
    ELSE LET ids == token_ids(phonemes)
             n_tokens == Len(ids)
         IN  [inference |-> TRUE,
              tokens |-> SubSeq(ids, 1, n_tokens),
              style_idx |-> Min(saturating_sub(n_tokens, 2), STYLE_ROWS - 1)]

\* generate_audio: Ok(Vec::new()) for no phonemes; else the tokens and the
\* row of voice_data.styles that go into the inference
generate_audio(phonemes) ==
    IF phonemes.known + phonemes.unknown = 0
    THEN [inference |-> FALSE, tokens |-> <<>>, style_idx |-> 0]
    ELSE LET ids == token_ids(phonemes)
             n_tokens == Min(Len(ids), MAX_TOKENS)
         IN  [inference |-> TRUE,
              tokens |-> SubSeq(ids, 1, n_tokens),
              style_idx |-> Min(saturating_sub(n_tokens, 2), STYLE_ROWS - 1)]

\* speak_inner: self.generate_audio(sentence) (tts.rs:228)
CallGenerateAudio ==
    /\ ret = NoCall
    /\ ret' = FnReturned(generate_audio(arg))
    /\ UNCHANGED arg
    /\ FnIdle

\* generate_audio is about to be called with any phoneme string
InitTokens ==
    /\ InitTts
    /\ InitDict
    /\ InitApi
    /\ InitHook
    /\ InitProc
    /\ InitRec
    /\ scenario = 0
    /\ arg \in Phonemes
    /\ ret = NoCall
    /\ sink_cut = FALSE
    /\ new_sink = [c \in Callers |-> "none"]
    /\ InitKeys
    /\ InitCache
    /\ InitRace

SpecTokens == InitTokens /\ [][CallGenerateAudio]_vars

\* C25: the token sequence given to the inference has at most 510 entries,
\* and the style row is min(n_tokens - 2, 509), n_tokens being the number of
\* those entries: a row in 0..509, also for phonemes with no or one known
\* character and for those with 510 or 511 tokens or more (SpecTokens)
StyleRowInRange ==
    ret.called /\ ret.value.inference =>
        LET n_tokens == Len(ret.value.tokens)
        IN  /\ n_tokens <= MAX_TOKENS
            /\ n_tokens >= 2
            /\ ret.value.style_idx = Min(n_tokens - 2, STYLE_ROWS - 1)
            /\ ret.value.style_idx \in 0..(STYLE_ROWS - 1)

\* 511 tokens were cut to 510 and style row 508 was selected
TokensClamped ==
    /\ ret.called
    /\ arg.known + 2 = MAX_TOKENS + 1
    /\ Len(ret.value.tokens) = MAX_TOKENS
    /\ ret.value.style_idx = MAX_TOKENS - 2


(***************************************************************************)
(* Speech and its cancellation: jobs of one or more sentences that may ask *)
(* for a reminder, every request that cancels, and the reminder task.      *)
(* sink_cut remembers that cancel() or interrupt() took the sink of the    *)
(* consumer's job while it was playing                                     *)
(***************************************************************************)
SpeechRest ==
    UNCHANGED <<dictVars, scenario, voice, reply, hookVars, proc, recVars,
                fnVars, keyVars, cacheVars, dispatchers>>

SpeechIdle == SpeechRest /\ UNCHANGED new_sink

\* play_audio of the consumer's job waits for its poll loop and the sink
\* still has audio
ConsumerPlaying == pc["consumer"] = "wait" /\ tts.active_sink = "playing"

\* the consumer begins a speak, or is done with its job
ConsumerTurns ==
    \/ pc["consumer"] = "lock" /\ pc'["consumer"] /= "lock"
    \/ pc["consumer"] = "tail" /\ pc'["consumer"] /= "tail"

\* a step that calls tts.cancel()
Cuts == sink_cut' = (sink_cut \/ ConsumerPlaying)

\* a step that does not
CutsNothing == sink_cut' = IF ConsumerTurns THEN FALSE ELSE sink_cut

\* POST /speak of a text of 1..SpeechSentences sentences
SpeechSpeak ==
    /\ nspeak < SpeechJobs
    /\ \E nsent \in 1..SpeechSentences, start_reminder \in BOOLEAN :
          HandleSpeak(nsent, FALSE, start_reminder, "s1")
    /\ CutsNothing
    /\ SpeechIdle

SpeechCancel == HandleCancel /\ Cuts /\ SpeechIdle

SpeechCancelReminder == HandleCancelReminder /\ CutsNothing /\ SpeechIdle

SpeechUserInput == HandleUserInput("s2") /\ CutsNothing /\ SpeechIdle

SpeechDisable == HandleDisable /\ Cuts /\ SpeechIdle

SpeechEnable == HandleEnable /\ CutsNothing /\ SpeechIdle

SpeechConsumer ==
    /\ \/ ConsumerRecv
       \/ ConsumerCheck
       \/ ConsumerPrep
       \/ ConsumerTail
    /\ CutsNothing
    /\ SpeechIdle

SpeechReminder == ReminderWake /\ CutsNothing /\ SpeechIdle

SpeechSpeaks(c) ==
    /\ \/ SpeakLock(c)
       \/ SpeakGen(c)
       \/ SpeakChk(c)
       \/ SpeakWake(c)
       \/ SpeakRet(c)
    /\ CutsNothing
    /\ SpeechIdle

\* play_audio: Sink::connect_new and sink.append (tts.rs:377-379); the new
\* sink plays from here on, the sink in active_sink is still the old one
SpeakConnect(c) ==
    /\ pc[c] = "play"
    /\ poller[c] = "none"
    /\ new_sink[c] = "none"
    /\ new_sink' = [new_sink EXCEPT ![c] = "playing"]
    /\ UNCHANGED ttsVars

SpeechConnect(c) == SpeakConnect(c) /\ CutsNothing /\ SpeechRest

\* play_audio: the new sink is moved into active_sink, which drops the old
\* one (tts.rs:382), and the poll loop is awaited
SpeechPlay(c) ==
    /\ new_sink[c] = "playing"
    /\ SpeakPlay(c)
    /\ new_sink' = [new_sink EXCEPT ![c] = "none"]
    /\ CutsNothing
    /\ SpeechRest

SpeechPoll(c) == (PollEmpty(c) \/ PollCancel(c)) /\ CutsNothing /\ SpeechIdle

SpeechSink == SinkDrain /\ CutsNothing /\ SpeechIdle

NextSpeech ==
    \/ SpeechSpeak
    \/ SpeechCancel
    \/ SpeechCancelReminder
    \/ SpeechUserInput
    \/ SpeechDisable
    \/ SpeechEnable
    \/ SpeechConsumer
    \/ SpeechReminder
    \/ \E c \in Callers : SpeechSpeaks(c)
    \/ \E c \in Callers : SpeechConnect(c)
    \/ \E c \in Callers : SpeechPlay(c)
    \/ \E c \in Callers : SpeechPoll(c)
    \/ SpeechSink

SpecSpeech == Init /\ [][NextSpeech]_vars

\* C26: when cancel() was called while a sentence of the consumer's job was
\* playing, the speak of that job returns cancelled = true, and the consumer
\* then defers the job by the deferral rule and starts no reminder for it
\* (SpecSpeech)
CutSpeechIsCancelled ==
    /\ [](pc["consumer"] = "tail" /\ sink_cut
             => frame["consumer"].cancelled)
    /\ [][pc["consumer"] = "tail" /\ sink_cut /\ pc'["consumer"] = "recv"
             => /\ deferred' = Defer(deferred, c_job)
                /\ reminder'.task /= "running"]_vars


\* the reminder task is inside tts.speak
ReminderInSpeak ==
    pc["reminder"] \in {"lock", "gen", "chk", "play", "wait", "ret"}

\* a step that cancels the reminder while its task runs
ReminderCancelled == reminder.task = "running" /\ reminder'.task /= "running"

\* C27: a step that cancels the reminder while the reminder task is inside
\* tts.speak leaves no sink playing, and the cancelled task starts the
\* playback of no further sentence (SpecSpeech)
ReminderCancelStopsSpeech ==
    /\ [][ReminderCancelled /\ ReminderInSpeak
             => tts'.active_sink /= "playing"]_vars
    /\ [][reminder.task = "aborted" /\ pc["reminder"] = "play"
             => pc'["reminder"] = "play"]_vars


\* caller c is inside tts.speak, the mutex acquired
InSpeak(c) == pc[c] \in {"gen", "chk", "play", "wait", "ret"}

\* C28: whenever no speak() call is in progress, the speaking flag that GET
\* /status reports is false (SpecSpeech)
SpeakingOnlyInSpeak ==
    (\A c \in Callers : ~InSpeak(c)) => ~StatusResponse.speaking



\* the number of sinks that are connected to the mixer and have audio left
SinksPlaying ==
    Cardinality({c \in Callers : new_sink[c] = "playing"})
        + (IF tts.active_sink = "playing" THEN 1 ELSE 0)

\* every caller inside tts.speak is the holder of the speak mutex
OneSpeakAtATime == \A c \in Callers : InSpeak(c) => tts.speak_lock = c

\* C29: at most one speak() is between acquiring and releasing the speak
\* mutex, and at most one audio sink is playing at any time, also after a
\* reminder task was aborted inside tts.speak (SpecSpeech)
OneSpeakOneSink == OneSpeakAtATime /\ SinksPlaying <= 1



\* the speak of the consumer's job ran through its last sentence and was
\* not cancelled
SpokenThrough ==
    /\ ~frame["consumer"].cancelled
    /\ frame["consumer"].idx = frame["consumer"].n

\* a job of the current generation is lost: the queue or the consumer lets
\* go of it before its speak has returned
JobLost ==
    \/ /\ c_job /= NoJob
       /\ c_job.generation = generation'
       /\ c_job' /= c_job
       /\ pc["consumer"] /= "tail"
    \/ \E i \in 1..Len(queue) :
          /\ queue[i].generation = generation'
          /\ c_job' /= queue[i]
          /\ \A j \in 1..Len(queue') : queue'[j] /= queue[i]

\* C30: a job stamped with the current generation, that is, accepted after
\* the most recent /cancel and followed by no /cancel or /disable, stays with
\* the queue and the consumer until its speak has returned, its sink is not
\* stopped while it plays, and its speak runs through the last sentence and
\* returns cancelled = false, whatever the cancel flag was before (SpecFull)
CancelDoesNotPoison ==
    /\ [](pc["consumer"] = "tail" /\ c_job.generation = generation
             => SpokenThrough)
    /\ [][ConsumerPlaying /\ c_job.generation = generation'
             => tts'.active_sink /= "none"]_vars
    /\ [][~JobLost]_vars



(***************************************************************************)
(* The orchestrator's cycle                                                *)
(***************************************************************************)
\* the step handles the edge ev taken from the hotkey channel
Handles(ev) == OrchRecv /\ Head(hotkey_rx).ev = ev

\* on_hotkey_release has set the state to PROCESSING in this step
EntersProcessing == dict_log'.processing = dict_log.processing + 1

\* C31: the state changes only from IDLE to RECORDING, when a Pressed edge
\* is handled, from RECORDING to PROCESSING, when a Released edge is handled
\* or the poll finds the latch set (an empty or silent recording goes on to
\* IDLE in the same call), and from PROCESSING to IDLE; a Released edge
\* handled in IDLE changes nothing but the channel, and the capturer is armed
\* only in RECORDING (SpecDict)
StateFollowsCycle ==
    /\ [][state' /= state =>
            \/ /\ state = "Idle"
               /\ state' = "Recording"
               /\ Handles("Pressed")
            \/ /\ state = "Recording"
               /\ state' \in {"Processing", "Idle"}
               /\ EntersProcessing
               /\ Handles("Released") \/ OrchAutoStop
            \/ /\ state = "Processing"
               /\ state' = "Idle"]_vars
    /\ [][state /= "Recording" /\ (Handles("Released") \/ OrchAutoStop)
            => UNCHANGED <<state, voice_is_idle, hotkey_active, o_pc,
                           recorder, cancel_http, dict_log>>]_vars
    /\ [](recorder.is_recording => state = "Recording")

\* a recording was stopped by the poll, and the Released edge of the same
\* press is about to be handled in IDLE with the latch still set
ReleasedInIdle ==
    /\ state = "Idle"
    /\ o_pc = "select"
    /\ hotkey_rx /= <<>>
    /\ Head(hotkey_rx).ev = "Released"
    /\ recorder.should_auto_stop
    /\ dict_log.processing > 0



(***************************************************************************)
(* The hotkey monitor in detail (hotkey.rs): one task per keyboard device, *)
(* all of them sharing one HotkeyState behind a mutex.  A key event is     *)
(* handled in one step: the lock is held from the match on the value to    *)
(* the try_send                                                            *)
(***************************************************************************)
Devices == {1, 2}

\* the value of a key event: 0 release, 1 press, 2 repeat
KeyValues == {0, 1, 2}

\* the configurations of the model: the default, one with an alternate
\* combo of a single key, one whose alternate combo contains the primary
ComboConfigs ==
    { DefaultCombos,
      {{"KEY_LEFTMETA", "KEY_LEFTALT"}, {"KEY_A"}},
      {{"KEY_LEFTMETA"}, {"KEY_LEFTMETA", "KEY_LEFTALT"}} }

\* variant of any_combo_active that wants every combo held
all_combos_active(cs, pressed) == \A combo \in cs : combo \subseteq pressed

\* HotkeyMonitor::any_combo_active
any_combo_active(cs, pressed) == \E combo \in cs : combo \subseteq pressed

KeysIdle ==
    /\ UNCHANGED ttsVars
    /\ UNCHANGED <<state, voice_is_idle, o_pc, recorder, cancel_http,
                   dict_log>>
    /\ UNCHANGED <<scenario, voice, reply, hookVars, proc, recVars, fnVars,
                   sinkVars, combos, cacheVars, dispatchers>>

\* monitor_device: the task of device handles one key event
\* (hotkey.rs:170-204)
monitor_device(device, key, value) ==
    /\ Len(key_log.sent) < MaxSent
    /\ LET held == IF value = 1 THEN pressed_keys \cup {key}
                   ELSE pressed_keys \ {key}
           now_active == any_combo_active(combos, held)
           event == [device |-> device, key |-> key, value |-> value]
           edge == IF now_active /\ ~hotkey_active THEN "Pressed"
                   ELSE IF ~now_active /\ hotkey_active THEN "Released"
                   ELSE "none"
       IN  IF value \notin {0, 1}
           THEN /\ key_log' = [key_log EXCEPT !.event = event]
                /\ UNCHANGED <<pressed_keys, hotkey_active, hotkey_rx>>
           ELSE /\ pressed_keys' = held
                /\ hotkey_active' = now_active
                /\ hotkey_rx' = IF edge = "none" THEN hotkey_rx
                                ELSE TrySend(hotkey_rx, Edge(edge))
                /\ key_log' = [event |-> event,
                               sent |-> IF edge = "none" THEN key_log.sent
                                        ELSE Append(key_log.sent, edge)]
    /\ KeysIdle

KeyEvent ==
    \E device \in Devices, key \in Keys, value \in KeyValues :
        monitor_device(device, key, value)

\* a service started with any of the configurations
InitAnyCombos ==
    /\ InitDict
    /\ InitTts
    /\ InitApi
    /\ InitHook
    /\ InitProc
    /\ InitFn
    /\ InitRec
    /\ sink_cut = FALSE
    /\ new_sink = [c \in Callers |-> "none"]
    /\ scenario = 0
    /\ combos \in ComboConfigs
    /\ pressed_keys = {}
    /\ key_log = [event |-> NoKeyEvent, sent |-> <<>>]
    /\ InitCache
    /\ InitRace

SpecKeys == InitAnyCombos /\ [][KeyEvent]_vars

\* the edges sent alternate, beginning with Pressed
Alternate(sent) ==
    \A i \in 1..Len(sent) :
        sent[i] = IF i % 2 = 1 THEN "Pressed" ELSE "Released"

\* C32: after every key event the combo-active bit says whether some
\* configured key set is held entirely, the edges the monitor has sent
\* alternate beginning with Pressed, and a repeat event (value 2) changes
\* neither the held set nor the bit and sends nothing, whichever device the
\* events come from (SpecKeys)
ActiveIffComboHeld ==
    /\ [](hotkey_active <=> \E combo \in combos : combo \subseteq pressed_keys)
    /\ [](Alternate(key_log.sent))
    /\ [][key_log'.event.value = 2
            => UNCHANGED <<pressed_keys, hotkey_active, hotkey_rx>>
               /\ key_log'.sent = key_log.sent]_vars

\* a combo is held, one Pressed edge has been sent, and the event handled
\* last is a repeat of a held key
RepeatWhileHeld ==
    /\ hotkey_active
    /\ key_log.event.value = 2
    /\ key_log.event.key \in pressed_keys
    /\ key_log.sent = <<"Pressed">>



(***************************************************************************)
(* The recorder alone: start() and stop() as the orchestrator calls them,  *)
(* in turn, and the capture callback at any time between them.  arg holds  *)
(* the samples the callbacks were called with since the latest start() and *)
(* before the stop() that followed it, ret the samples that stop()         *)
(* returned                                                                *)
(***************************************************************************)
BufIdle ==
    /\ UNCHANGED ttsVars
    /\ UNCHANGED <<voice_is_idle, hotkey_active, hotkey_rx, o_pc, cancel_http,
                   dict_log>>
    /\ UNCHANGED <<scenario, voice, reply, hookVars, proc, sinkVars, keyVars, cacheVars, dispatchers>>

\* on_hotkey_press calls recorder.start() (service.rs:341)
BufStart ==
    /\ state = "Idle"
    /\ state' = "Recording"
    /\ SetRecorderInner(start(RecorderInner))
    /\ arg' = FnReturned(<<>>)
    /\ ret' = NoCall
    /\ UNCHANGED clock
    /\ BufIdle

\* the audio host calls the capture callback with a chunk
BufCallback ==
    /\ state = "Recording" => Len(arg.value) + ChunkSize <= MaxDelivered
    /\ \E data \in Chunks :
          /\ SetRecorderInner(capture(RecorderInner, data))
          /\ arg' = IF state = "Recording"
                    THEN FnReturned(arg.value \o data) ELSE arg
    /\ UNCHANGED <<state, ret, clock>>
    /\ BufIdle

\* on_hotkey_release calls recorder.stop() (service.rs:355); what it does
\* with the samples is left out
BufStop ==
    /\ state = "Recording"
    /\ state' = "Idle"
    /\ SetRecorderInner(stop(RecorderInner))
    /\ ret' = FnReturned(RecorderInner.buffer)
    /\ UNCHANGED <<arg, clock>>
    /\ BufIdle

BufTick ==
    /\ clock < MaxClock
    /\ clock' = clock + 1
    /\ UNCHANGED <<dictVars, inner, fnVars>>
    /\ BufIdle

NextBuffer ==
    \/ BufStart
    \/ BufCallback
    \/ BufStop
    \/ BufTick

SpecBuffer == Init /\ [][NextBuffer]_vars

\* the first n elements of s, all of s when it has fewer
Prefix(s, n) == SubSeq(s, 1, Min(Len(s), n))

\* C33: stop() returns the samples the callbacks delivered since the latest
\* start(), in their order and cut at max_samples; after it the buffer is
\* empty and the capturer disarmed, and a callback that finds the capturer
\* disarmed changes neither the buffer nor the silence tracker nor the latch
\* (SpecBuffer)
StopReturnsDelivered ==
    /\ [](ret.called =>
            /\ ret.value = Prefix(arg.value, inner.max_samples)
            /\ inner.buffer = <<>>
            /\ ~recorder.is_recording)
    /\ [](state = "Recording" =>
            inner.buffer = Prefix(arg.value, inner.max_samples))
    /\ [][BufCallback /\ ~recorder.is_recording
            => UNCHANGED <<inner, recorder>>]_vars

\* stop() returned a full buffer, and the callbacks had delivered more
\* samples than it holds
StoppedAtCap ==
    /\ ret.called
    /\ Len(ret.value) = MaxSamples
    /\ Len(arg.value) > MaxSamples



\* C34: the buffer never holds more than max_duration * sample_rate
\* samples; the callback that fills it to that number disarms the capturer
\* and sets the latch, and of the samples of a callback those beyond the cap
\* are not stored (SpecBuffer)
BufferCapped ==
    /\ [](Len(inner.buffer) <= MaxSamples)
    /\ [][BufCallback /\ Len(inner'.buffer) = MaxSamples
                      /\ Len(inner.buffer) < MaxSamples
            => ~recorder'.is_recording /\ recorder'.should_auto_stop]_vars
    /\ [][BufCallback /\ recorder.is_recording
            => \E data \in Chunks :
                  inner'.buffer = Prefix(inner.buffer \o data, MaxSamples)]_vars

\* a recording is on, the buffer is full, the capturer disarmed and the
\* latch set, and a sample was discarded
DisarmedAtCap ==
    /\ state = "Recording"
    /\ Len(inner.buffer) = MaxSamples
    /\ Len(arg.value) > MaxSamples
    /\ ~recorder.is_recording
    /\ recorder.should_auto_stop



\* C35: while the engine is disabled the consumer starts the playback of no
\* sentence, whatever was queued, in flight or deferred at POST /disable and
\* whatever POST /user-input requests arrive before the next POST /enable
\* (Spec)
SilentWhileDisabled == [][StartsPlaying("consumer") => enabled]_vars



\* C36: the step that handles POST /cancel leaves no reminder active, and a
\* reminder becomes active only for a job that is stamped with the current
\* generation, that is, none for a job accepted before the latest /cancel
\* (SpecSpeech)
NoReminderAfterCancel ==
    /\ [][SpeechCancel => ~reminder'.active]_vars
    /\ [][~reminder.active /\ reminder'.active
            => c_job.generation = generation]_vars



(***************************************************************************)
(* POST /user-input while the queue is at capacity: /speak requests of     *)
(* session s2, /cancel, a /user-input of session s1 when a job is deferred *)
(* and the queue is full, and the consumer up to its call of tts.speak     *)
(***************************************************************************)
\* POST /speak of a one-sentence text of session s2
LostSpeak ==
    /\ nspeak < QUEUE_CAPACITY + FullExtra
    /\ HandleSpeak(1, FALSE, FALSE, "s2")
    /\ reply' = Reply("/speak", SpeakResponse(1))
    /\ UNCHANGED voice
    /\ ReqIdle

\* POST /user-input of session s1 while a job is deferred and the queue
\* is full
LostUserInput ==
    /\ deferred /= <<>>
    /\ Len(queue) = QUEUE_CAPACITY
    /\ ReqUserInput

NextLost ==
    \/ LostSpeak
    \/ ReqCancel
    \/ LostUserInput
    \/ Consumer

SpecLost == InitFull /\ [][NextLost]_vars

\* C37: every job POST /user-input drains from the deferred list is either
\* discarded, its session id being empty or the one of the request, or is
\* in the queue afterwards with the current generation and one more retry,
\* and the requeued count of the reply is the number of the others
\* (SpecLost)
UserInputLosesNoJob ==
    [][LostUserInput =>
         /\ \A i \in 1..Len(deferred) :
               \/ IsFocus(deferred[i], "s1")
               \/ \E j \in 1..Len(queue') :
                     queue'[j] = Restamp(deferred[i], generation)
         /\ reply'.body.requeued =
               Cardinality({i \in 1..Len(deferred) :
                               ~IsFocus(deferred[i], "s1")})]_vars


(***************************************************************************)
(* The state cache: the MCP server, a process of its own, and the          *)
(* orchestrator both read and write ~/.cache/whisper-typer/state.json.     *)
(* Each fs::read_to_string and each fs::write is one step; nothing orders  *)
(* the steps of the two processes.                                         *)
(***************************************************************************)
CacheIdle ==
    UNCHANGED <<ttsVars, dictVars, scenario, voice, reply, hookVars, proc,
                recVars, fnVars, sinkVars, keyVars, dispatchers>>

\* update_state (mcp_server.rs:61-62): read_state, called by add_vocabulary
\* (mcp_server.rs:451) or add_correction (mcp_server.rs:512) after the tool
\* has written its file
update_read(f) ==
    /\ update.pc = "idle"
    /\ update' = [pc |-> "write", state |-> state_file, updates |-> f]
    /\ UNCHANGED <<state_file, reload, unseen>>
    /\ CacheIdle

\* update_state (mcp_server.rs:63-68): insert the key into the copy read and
\* write the whole file
update_write ==
    /\ update.pc = "write"
    /\ state_file' = update.state \cup {update.updates}
    /\ unseen' = unseen \cup {update.updates}
    /\ update' = NoUpdate
    /\ UNCHANGED reload
    /\ CacheIdle

\* check_whisper_reload (service.rs:520-526), reached at service.rs:375 in
\* a PROCESSING cycle that captured audible samples: one read of the file
check_read ==
    /\ reload.pc = "idle"
    /\ reload' = [pc |-> "check", flag |-> "vocabulary_updated",
                  state |-> state_file, s |-> {}]
    /\ UNCHANGED <<state_file, update, unseen>>
    /\ CacheIdle

\* the flag tested after f, or the rest of the cycle
AfterFlag(r) ==
    IF r.flag = "vocabulary_updated"
    THEN [r EXCEPT !.pc = "check", !.flag = "corrections_updated"]
    ELSE [r EXCEPT !.pc = "transcribe", !.flag = ""]

\* check_whisper_reload (service.rs:528-530, 541-543): the test of a flag
\* in the copy read first, and the reload of its file
check_flag ==
    /\ reload.pc = "check"
    /\ IF reload.flag \in reload.state
       THEN /\ unseen' = unseen \ {reload.flag}
            /\ reload' = [reload EXCEPT !.pc = "clear_read"]
       ELSE /\ reload' = AfterFlag(reload)
            /\ UNCHANGED unseen
    /\ UNCHANGED <<state_file, update>>
    /\ CacheIdle

\* check_whisper_reload (service.rs:532-534, 545-547): the file is read
\* again
clear_read ==
    /\ reload.pc = "clear_read"
    /\ reload' = [reload EXCEPT !.pc = "clear_write", !.s = state_file]
    /\ UNCHANGED <<state_file, update, unseen>>
    /\ CacheIdle

\* check_whisper_reload (service.rs:535-536, 548-549): the key is removed
\* from the second copy, which is written back
clear_write ==
    /\ reload.pc = "clear_write"
    /\ state_file' = reload.s \ {reload.flag}
    /\ reload' = AfterFlag(reload)
    /\ UNCHANGED <<update, unseen>>
    /\ CacheIdle

\* write_mcp_state (service.rs:247-262): the whole file is written from the
\* service's fields, none of which is a reload flag
write_mcp_state == {}

\* on_hotkey_release (service.rs:377-481): the cycle ends in
\* add_transcription (service.rs:264-272), or returns before it when the
\* transcription fails or its text is empty
cycle_end ==
    /\ reload.pc = "transcribe"
    /\ \/ state_file' = write_mcp_state
       \/ UNCHANGED state_file
    /\ reload' = NoReload
    /\ UNCHANGED <<update, unseen>>
    /\ CacheIdle

NextCache ==
    \/ \E f \in Flags : update_read(f)
    \/ update_write
    \/ check_read
    \/ check_flag
    \/ clear_read
    \/ clear_write
    \/ cycle_end

SpecCache == Init /\ [][NextCache]_vars

\* the test of flag f is still ahead in the cycle under way, and the copy
\* the cycle tests holds f
Observed(f) ==
    /\ reload.pc = "check"
    /\ f \in reload.state
    /\ reload.flag = f \/ reload.flag = "vocabulary_updated"

\* C38: a flag the tool has written stays set in the state file until a
\* PROCESSING cycle has observed it and reloaded its file, whatever the
\* interleaving of the tool's and the orchestrator's reads and writes
FlagNeverLost ==
    \A f \in unseen : f \in state_file \/ Observed(f)


(***************************************************************************)
(* The hotkey channel at its capacity: the user taps the hotkey faster     *)
(* than the orchestrator takes the edges, so that try_send drops edges     *)
(***************************************************************************)
StuckEdge == HotkeyEdges(MaxTaps)

\* the hotkey was tapped HOTKEY_CHANNEL_CAPACITY \div 2 times before the
\* orchestrator took the first edge, and once more right after it: the
\* Pressed edge of that tap took the last place in the channel and its
\* Released edge was dropped. The orchestrator has handled the edges before
\* that Pressed edge, the recordings they began were empty
LastTapQueued ==
    /\ state = "Idle"
    /\ voice_is_idle = TRUE
    /\ hotkey_active = FALSE
    /\ hotkey_rx = <<[ev |-> "Pressed", at |-> "Recording"]>>
    /\ o_pc = "select"
    /\ recorder = [is_recording |-> FALSE, buffer |-> "empty",
                   should_auto_stop |-> FALSE]
    /\ cancel_http = 0
    /\ dict_log = [pressed |-> HOTKEY_CHANNEL_CAPACITY \div 2 + 1,
                   starts |-> HOTKEY_CHANNEL_CAPACITY \div 2,
                   processing |-> HOTKEY_CHANNEL_CAPACITY \div 2,
                   records |-> 0,
                   skips |-> HOTKEY_CHANNEL_CAPACITY \div 2,
                   save_errors |-> 0]
    /\ clock = 0
    /\ inner = [new([duration |-> SilenceTicks,
                     min_speech_duration |-> MaxMinSpeech,
                     max_recording_duration |-> MaxMaxRecording])
                  EXCEPT !.recording_start = Some(0)]

\* LastTapQueued is a state of the service: the taps and the orchestrator's
\* handling of them, without a capture callback in between
NextTaps ==
    \/ StuckEdge
    \/ RecRecv
    \/ CancelHttpFailed

SpecTaps == Init /\ [][NextTaps]_vars

InitStuck ==
    /\ InitTts
    /\ InitApi
    /\ InitHook
    /\ InitProc
    /\ InitFn
    /\ sink_cut = FALSE
    /\ new_sink = [c \in Callers |-> "none"]
    /\ InitKeys
    /\ InitCache
    /\ InitRace
    /\ scenario = 0
    /\ LastTapQueued

NextStuck ==
    \/ StuckEdge
    \/ Tick
    \/ RecCallback
    \/ RecRecv
    \/ RecAutoStop
    \/ TranscribeDone
    \/ OllamaDone
    \/ CancelHttpFailed

\* the audio host keeps calling the capture callback and the 100 ms
\* interval keeps ticking; whisper's transcription returns and the request
\* to Ollama returns or times out after 30 s (processor.rs:33-34)
SpecStuck ==
    /\ InitStuck
    /\ [][NextStuck]_vars
    /\ WF_vars(RecCallback)
    /\ WF_vars(RecAutoStop)
    /\ WF_vars(TranscribeDone)
    /\ WF_vars(OllamaDone)

\* C39: whenever the orchestrator is in RECORDING it is later in IDLE with
\* the voice gate open, also when the channel dropped the Released edge of
\* the recording (SpecStuck)
RecordingEnds == (state = "Recording") ~> (state = "Idle" /\ voice_is_idle)

\* the Released edge of the recording under way was dropped: the monitor
\* has sent it (no combo is active) and it is not in the channel
ReleasedDropped ==
    /\ state = "Recording"
    /\ ~hotkey_active
    /\ \A i \in 1..Len(hotkey_rx) : hotkey_rx[i].ev /= "Released"

\* the capture callback has set the latch of a recording whose Released
\* edge was dropped, and the poll finds the orchestrator in its select
LatchedWithoutRelease ==
    /\ ReleasedDropped
    /\ recorder.should_auto_stop
    /\ o_pc = "select"


(***************************************************************************)
(* Two hook dispatcher processes at the same time (bin/tts_hook.rs): the   *)
(* host tool fires Stop twice for one turn and starts a process for each.  *)
(* A read of the marker file, the truncation and the write that make up    *)
(* fs::write, and the request are steps of their own; nothing orders the   *)
(* steps of the two processes.                                             *)
(***************************************************************************)
RaceIdle ==
    UNCHANGED <<dictVars, scenario, voice, proc, recVars, fnVars, sinkVars,
                keyVars, cacheVars>>

\* main up to handle_stop's extract_last_assistant_text (tts_hook.rs:257-
\* 299, 317-319): the event is a Stop of session sid whose transcript ends
\* in text, the TTS API answers GET /status
RaceStart(d, sid, text) ==
    /\ dispatchers[d].pc = "none"
    /\ dispatchers' = [dispatchers EXCEPT ![d] =
                          [pc |-> "read", session_id |-> sid, text |-> text,
                           is_focus |-> is_focus_session(sid),
                           previous |-> NoText, action |-> ""]]
    /\ hook_in' = Append(hook_in, [event |-> HookEvent("Stop", sid, TRUE, text),
                                   aged |-> FALSE])
    /\ UNCHANGED <<focus, dedup, hook_log, ttsVars, reply>>
    /\ RaceIdle

\* is_duplicate_stop: fs::read_to_string(&path).unwrap_or_default()
\* (tts_hook.rs:171)
RaceRead(d) ==
    /\ dispatchers[d].pc = "read"
    /\ dispatchers' = [dispatchers EXCEPT
                          ![d].previous =
                              dedup[dedup_file_for(dispatchers[d].session_id)],
                          ![d].pc = "truncate"]
    /\ UNCHANGED <<focus, dedup, hook_in, hook_log, ttsVars, reply>>
    /\ RaceIdle

\* is_duplicate_stop: fs::write(&path, text) opens the file truncating it
\* (tts_hook.rs:172)
RaceTruncate(d) ==
    /\ dispatchers[d].pc = "truncate"
    /\ dedup' = [dedup EXCEPT
                    ![dedup_file_for(dispatchers[d].session_id)] = NoText]
    /\ dispatchers' = [dispatchers EXCEPT ![d].pc = "write"]
    /\ UNCHANGED <<focus, hook_in, hook_log, ttsVars, reply>>
    /\ RaceIdle

\* is_duplicate_stop: fs::write(&path, text) writes the text
\* (tts_hook.rs:172)
RaceWrite(d) ==
    /\ dispatchers[d].pc = "write"
    /\ dedup' = [dedup EXCEPT
                    ![dedup_file_for(dispatchers[d].session_id)] =
                        dispatchers[d].text]
    /\ dispatchers' = [dispatchers EXCEPT ![d].pc = "compare"]
    /\ UNCHANGED <<focus, hook_in, hook_log, ttsVars, reply>>
    /\ RaceIdle

\* is_duplicate_stop's result and the rest of handle_stop and of main
\* (tts_hook.rs:173, 424-470, 328-343)
RaceSpeak(d) ==
    LET run == dispatchers[d]
        ev == HookEvent("Stop", run.session_id, TRUE, run.text)
    IN  /\ run.pc = "compare"
        /\ IF run.previous = run.text
           THEN /\ SaveHistory(ev, "skipped", "duplicate stop text", run.text,
                               TRUE, run.is_focus)
                /\ dispatchers' = [dispatchers EXCEPT
                                      ![d].pc = "done", ![d].action = "skipped"]
                /\ UNCHANGED <<ttsVars, reply>>
           ELSE IF run.is_focus
           THEN /\ PostSpeak(TRUE, TRUE)
                /\ SaveHistory(ev, "spoke", "focus", run.text, TRUE,
                               run.is_focus)
                /\ dispatchers' = [dispatchers EXCEPT
                                      ![d].pc = "done", ![d].action = "spoke"]
           ELSE IF is_tts_idle
           THEN /\ PostSpeak(FALSE, FALSE)
                /\ SaveHistory(ev, "spoke_background", "non-focus idle",
                               "finished", TRUE, run.is_focus)
                /\ dispatchers' = [dispatchers EXCEPT
                                      ![d].pc = "done",
                                      ![d].action = "spoke_background"]
           ELSE /\ SaveHistory(ev, "skipped", "non-focus busy", NoText, TRUE,
                               run.is_focus)
                /\ dispatchers' = [dispatchers EXCEPT
                                      ![d].pc = "done", ![d].action = "skipped"]
                /\ UNCHANGED <<ttsVars, reply>>
        /\ UNCHANGED <<focus, dedup, hook_in>>
        /\ RaceIdle

NextRace ==
    \/ \E d \in Dispatchers, sid \in {SessionA1, SessionB1}, text \in HookTexts :
          RaceStart(d, sid, text)
    \/ \E d \in Dispatchers : RaceRead(d)
    \/ \E d \in Dispatchers : RaceTruncate(d)
    \/ \E d \in Dispatchers : RaceWrite(d)
    \/ \E d \in Dispatchers : RaceSpeak(d)

\* no dispatcher runs; there is no focus file, or session B1 is the focus
\* session
InitRaceAny ==
    /\ InitTts
    /\ InitDict
    /\ InitApi
    /\ InitProc
    /\ InitFn
    /\ sink_cut = FALSE
    /\ new_sink = [c \in Callers |-> "none"]
    /\ InitKeys
    /\ InitCache
    /\ InitRace
    /\ InitRec
    /\ scenario = 0
    /\ focus \in {NoFocus, FocusState(SessionB1)}
    /\ dedup = [f \in DedupFiles |-> NoText]
    /\ hook_in = <<>>
    /\ hook_log = <<>>

SpecRace == InitRaceAny /\ [][NextRace]_vars

\* C40: of two dispatchers that handle Stop events of one session with the
\* same text, at most one sends POST /speak, whatever the interleaving of
\* their reads and writes of the marker file
OneSpeakPerStop ==
    \A a, b \in Dispatchers :
        /\ a /= b
        /\ dispatchers[a].session_id = dispatchers[b].session_id
        /\ dispatchers[a].text = dispatchers[b].text
        => ~(PostedSpeak(dispatchers[a]) /\ PostedSpeak(dispatchers[b]))

=============================================================================
